---- MODULE Spec2Model ----
(***************************************************************************)
(* Model of the workflow synchroniser (tools/workflow_sync): the           *)
(* orchestrator WorkflowSyncService.run, the two strategies, the           *)
(* per-repository pipeline sync_single_repo (skip check, diff, branch/PR   *)
(* transaction) and the parts of GitHubClient whose error handling decides *)
(* what the pipeline sees.  The remote hosting service is the environment: *)
(* its state (files, branches, pull requests) is part of the model and     *)
(* each call to it may succeed or fail.                                    *)
(***************************************************************************)
EXTENDS Integers, Sequences, FiniteSets, TLC

(***************************************************************************)
(* Bounds of the model.                                                    *)
(***************************************************************************)
\* Longest list of candidates topic search returns.
MaxTargets == 2
\* Number of consecutive runs of run() against the same remote state.
MaxRuns == 2

(***************************************************************************)
(* The universe: one organisation with the source repository and the       *)
(* target repositories.                                                    *)
(***************************************************************************)
SourceRepo == "org/source"
TargetRepos == {"org/a", "org/b"}
AllRepos == {SourceRepo} \cup TargetRepos

\* WorkflowSyncService.BRANCH_PREFIX
BRANCH_PREFIX == "sync/workflows-update"
\* SequentialSyncStrategy.sync: "if idx > 0 and idx % 5 == 0"
RATE_CHECK_EVERY == 5
\* random.randint(1000, 9999): the two ends of the range stand for it.
SUFFIX_MIN == 1000
SUFFIX_MAX == 9999

(***************************************************************************)
(* Texts.  A text is a sequence of characters; WS stands for a whitespace  *)
(* character.                                                              *)
(***************************************************************************)
WS == "_"

RECURSIVE LStrip(_)
LStrip(s) == IF s # <<>> /\ Head(s) = WS THEN LStrip(Tail(s)) ELSE s

RECURSIVE RStrip(_)
RStrip(s) ==
  IF s # <<>> /\ s[Len(s)] = WS THEN RStrip(SubSeq(s, 1, Len(s) - 1)) ELSE s

\* str.strip()
Strip(s) == RStrip(LStrip(s))

(***************************************************************************)
(* Branch names.  A name is its leading component, the millisecond         *)
(* timestamp and the optional random suffix (0: none).                     *)
(***************************************************************************)
NoBranch == [prefix |-> "", ts |-> 0, rnd |-> 0]
SyncBranch(ts, rnd) == [prefix |-> BRANCH_PREFIX, ts |-> ts, rnd |-> rnd]
\* A branch somebody else works on, with an open pull request of its own.
FeatureBranch == [prefix |-> "feature/login", ts |-> 0, rnd |-> 0]

\* pr.head.ref.startswith(branch_prefix)
StartsWith(b, p) == b.prefix = p

(***************************************************************************)
(* Files.                                                                  *)
(***************************************************************************)
\* What the workflow directory of the source repository lists, in order: two
\* workflows, a file that is none, and a subdirectory.
SourceListing ==
  << [name |-> "build.yml", type |-> "file", content |-> <<"b", WS>>],
     [name |-> "deploy.yml", type |-> "file", content |-> <<"d">>],
     [name |-> "README.md", type |-> "file", content |-> <<"r">>],
     [name |-> "shared.yml", type |-> "dir", content |-> <<>>] >>

\* The same directory without a workflow in it.
BareListing == SubSeq(SourceListing, 3, 4)

SourceListings == {SourceListing, BareListing}

\* content.name.endswith((".yml", ".yaml"))
HasWorkflowSuffix(name) == name \in {"build.yml", "deploy.yml", "shared.yml"}

\* GitHubClient.get_workflow_files: the files of the listing that are workflows.
RECURSIVE WorkflowFiles(_)
WorkflowFiles(listing) ==
  IF listing = <<>> THEN <<>>
  ELSE IF Head(listing).type = "file" /\ HasWorkflowSuffix(Head(listing).name)
    THEN <<[filename |-> Head(listing).name, content |-> Head(listing).content]>>
         \o WorkflowFiles(Tail(listing))
    ELSE WorkflowFiles(Tail(listing))

\* The workflows of the source repository, in listing order.
SourceDir == WorkflowFiles(SourceListing)

FileNames == {SourceDir[i].filename : i \in 1..Len(SourceDir)}

SourceContent(f) ==
  SourceDir[CHOOSE i \in 1..Len(SourceDir) : SourceDir[i].filename = f].content

NoFile == [exists |-> FALSE, content |-> <<>>, sha |-> ""]
RemoteFile(c) == [exists |-> TRUE, content |-> c, sha |-> "sha"]

\* What a target may hold for a workflow file: nothing, the source's text, a
\* text that differs from it in surrounding whitespace only, another text.
FileStates(f) ==
  {NoFile} \cup
  {RemoteFile(c) : c \in {SourceContent(f), Strip(SourceContent(f)),
                          Strip(SourceContent(f)) \o <<WS>>, <<"x">>}}

(***************************************************************************)
(* Run configuration (SyncConfig and run's parameter).                     *)
(***************************************************************************)
WorkerWidths == {1, 2}
Filters == { {}, {"deploy.yml"}, {"lint.yml"} }

Configs ==
  {c \in [parallel : BOOLEAN, dry_run : BOOLEAN,
          max_workers : WorkerWidths, files_filter : Filters] :
     ~c.parallel => c.max_workers = 1}

\* Repository attributes as get_repository delivers them: archived, and the
\* default branch ("": none; "raises": reading it fails, the repository is empty).
DefaultBranchStates == {"main", "", "raises"}

NoConfig ==
  [parallel |-> FALSE, dry_run |-> FALSE, max_workers |-> 1, files_filter |-> {}]

(***************************************************************************)
(* Results (models.SyncResult).                                            *)
(***************************************************************************)
NoUrl == <<>>
PrUrl(repo, number) == <<repo, number>>

Message(kind, url, n, exc) == [kind |-> kind, url |-> url, n |-> n, exc |-> exc]

\* Faulty variant of SyncResult: branch_created is left at its default.
SyncResult_NoBranch(repo, status, pr_url, message, updated, failed, branch) ==
  [repo_name |-> repo, status |-> status, pr_url |-> pr_url,
   message |-> message, files_updated |-> updated, files_failed |-> failed,
   branch_created |-> [prefix |-> "", ts |-> 0, rnd |-> 0]]

SyncResult(repo, status, pr_url, message, updated, failed, branch) ==
  [repo_name |-> repo, status |-> status, pr_url |-> pr_url,
   message |-> message, files_updated |-> updated, files_failed |-> failed,
   branch_created |-> branch]

NoResult ==
  SyncResult("", "none", NoUrl, Message("", NoUrl, 0, ""), <<>>, <<>>, NoBranch)

VARIABLES
  lim,               \* the scenario explored: see InitWith
  cfg,               \* the configuration of the runs
  files,             \* remote: workflow files on each target's default branch
  runNo,             \* runs started so far
  phase,             \* where run() is
  source_workflows,  \* self._source_workflows: sequence of [filename, content]
  target_repos,      \* what topic search returned
  repos_to_sync,     \* the resolved handles
  results,           \* the list the strategy builds and run() returns
  prev,              \* what the run before this one returned
  raised,            \* the exception that left run(), "" if none
  idx,               \* position of the sequential strategy's loop
  ri,                \* candidates run() has looked at while resolving handles
  tasks,             \* one sync_single_repo call per handle
  doneQueue,         \* futures in completion order (parallel strategy)
  branches,          \* remote: branches of each target
  prs,               \* remote: open pull requests of each target, newest first
  prCount,           \* remote: pull requests ever opened on each target
  now,               \* the last millisecond timestamp handed out
  faulted,           \* a call to the remote service has failed in this run
  cli,               \* the command line process: its inputs and where main() is
  call               \* one call of the client: its answers, attempts and sleeps

hostVars == <<cli, call>>
fixedVars == <<lim, cfg, files>>
runVars ==
  <<runNo, phase, source_workflows, target_repos, repos_to_sync, results,
    raised, idx, ri>>
taskVars == <<tasks, doneQueue>>
remoteVars == <<branches, prs, prCount, now>>
vars == <<hostVars, fixedVars, prev, runVars, taskVars, remoteVars, faulted>>

\* The state before the first run: a configuration among `configs`, target
\* files among `profiles`, and the scenario `limit`:
\*   len       longest list topic search returns
\*   universe  the repositories that may carry the topic
\*   handles   the attributes (archived, default branch) a target may have
\*   runs      number of consecutive runs
\*   faults    "one": at most one call to the remote service fails per run;
\*             "any": every call may fail
InitRun(configs, profiles, limit) ==
  /\ lim = limit
  /\ cfg \in configs
  /\ files \in profiles
  /\ runNo = 0
  /\ phase = "idle"
  /\ source_workflows = <<>>
  /\ target_repos = <<>>
  /\ repos_to_sync = <<>>
  /\ results = <<>>
  /\ prev = <<>>
  /\ raised = ""
  /\ idx = 0
  /\ ri = 0
  /\ tasks = <<>>
  /\ doneQueue = <<>>
  /\ branches = [r \in TargetRepos |-> {FeatureBranch}]
  /\ prs = [r \in TargetRepos |->
              << [head |-> FeatureBranch, url |-> PrUrl(r, 1)] >>]
  /\ prCount = [r \in TargetRepos |-> 1]
  /\ now = 0
  /\ faulted = FALSE

\* The runs of a service that is driven directly: no command line process and
\* no client call is looked at on its own.
NoCli == [pc |-> "none"]
NoCall == [pc |-> "none"]

InitWith(configs, profiles, limit) ==
  /\ InitRun(configs, profiles, limit)
  /\ cli = NoCli
  /\ call = NoCall

\* A target in sync but for whitespace, and one with a stale build.yml and no
\* deploy.yml.
Synced == [f \in FileNames |-> RemoteFile(Strip(SourceContent(f)))]
Stale ==
  [f \in FileNames |-> IF f = "build.yml" THEN RemoteFile(<<"x">>) ELSE NoFile]

AllProfiles == {p \in [FileNames -> UNION {FileStates(f) : f \in FileNames}] :
                  \A f \in FileNames : p[f] \in FileStates(f)}

\* A batch: one run over up to MaxTargets candidates, a stale target and one in
\* sync, archived or not, at most one failing call.
Init ==
  InitWith(Configs,
           {[r \in TargetRepos |-> IF r = "org/a" THEN Stale ELSE Synced]},
           [len |-> MaxTargets, universe |-> AllRepos,
            handles |-> BOOLEAN \X {"main"}, runs |-> 1, faults |-> "one"])

\* A batch long enough for the sequential strategy's periodic rate-limit check,
\* with a pool of one worker when parallel.
InitLong ==
  InitWith({c \in Configs : c.files_filter = {} /\ c.max_workers = 1},
           {[r \in TargetRepos |-> IF r = "org/a" THEN Stale ELSE Synced]},
           [len |-> RATE_CHECK_EVERY + 1, universe |-> TargetRepos,
            handles |-> {<<FALSE, "main">>}, runs |-> 1, faults |-> "one"])

\* One target, run after run, with every file state, filter and fault.
InitRepo ==
  InitWith(Configs,
           {p \in [TargetRepos -> AllProfiles] : p["org/b"] = Synced},
           [len |-> 1, universe |-> {SourceRepo, "org/a"},
            handles |-> BOOLEAN \X DefaultBranchStates, runs |-> MaxRuns,
            faults |-> "any"])

\* Whether a call may be made to fail, and the note taken of it.  A failure the
\* remote state forces (`forced`) is none of the faults counted.
Inject(o, forced) ==
  IF forced
    THEN o = "gh" /\ UNCHANGED faulted
    ELSE /\ o # "ok" => (lim.faults = "any" \/ ~faulted)
         /\ faulted' = (lim.faults = "one" /\ (faulted \/ o # "ok"))

(***************************************************************************)
(* Gateway calls: what each may answer, and what the client makes of it.   *)
(*   "ok"   the call returns                                               *)
(*   "gh"   it fails with a GithubException (after the retries, if any)    *)
(*   "net"  it fails with another exception (a network error)              *)
(* get_repository's failures are told apart by HTTP status.                *)
(***************************************************************************)
RateOutcomes == {"ok", "gh", "net"}

\* GitHubClient.check_rate_limit: a GithubException is logged, anything else
\* leaves the method.
CheckRateLimitRaises(o) == IF o = "net" THEN "net" ELSE ""

GetRepoOutcomes == {"ok", "404", "401", "500", "net"}

\* GitHubClient.get_repository: the exception that leaves it, "" if none.
GetRepositoryRaises(o) ==
  CASE o = "ok" -> ""
    [] o = "404" -> "SourceRepoError"
    [] o = "401" -> "AuthenticationError"
    [] o = "500" -> "RepositoryAccessError"
    [] OTHER -> "net"

WorkflowFilesOutcomes == {"ok", "404", "500"}

\* GitHubClient.get_workflow_files: the exception that leaves it, "" if none.
GetWorkflowFilesRaises(o) ==
  CASE o = "ok" -> ""
    [] o = "404" -> "SourceRepoError"
    [] OTHER -> "GithubException"

SearchOutcomes == {"ok", "gh", "net"}

\* All sequences over S of length at most n.
SeqsUpTo(S, n) == UNION {[1..k -> S] : k \in 0..n}

\* Repository.name: the full name without the organisation.
ShortName(full_name) ==
  CASE full_name = "org/source" -> "source"
    [] full_name = "org/a" -> "a"
    [] full_name = "org/b" -> "b"

Handle(r, a, d) ==
  [full_name |-> r, name |-> ShortName(r), archived |-> a, default_branch |-> d]

(***************************************************************************)
(* One sync_single_repo call.                                              *)
(***************************************************************************)
NoCalls == [create |-> 0, write |-> 0, pr |-> 0, delete |-> 0]
NoPull == [head |-> NoBranch, base |-> ""]
NoRef == [name |-> NoBranch, sha |-> ""]

NewTask(h) ==
  [pc |-> "queued", repo |-> h, changes |-> <<>>, wi |-> 0,
   branch_name |-> NoBranch, files_updated |-> <<>>, files_failed |-> <<>>,
   exc |-> "", result |-> NoResult,
   \* history: an open sync pull request existed when the skip check ran; what
   \* the listing made of it ("seen", "missed": the listing failed and was
   \* taken as empty, "failed": the listing raised); this call's create_branch
   \* succeeded; the mutating calls it made
   hadSyncPR |-> FALSE, guard |-> "none", created |-> FALSE,
   calls |-> NoCalls,
   \* history: the rank of this call among the calls that are over (0: running)
   doneAt |-> 0,
   \* history (sequential strategy): check_rate_limit was called at the head of
   \* this call's iteration; the calls of handle_post_operation_rate_limit made
   \* at its tail
   rateChecked |-> FALSE, paced |-> 0,
   \* history: the create_or_update_file requests sent, and the
   \* create_pull_request one
   requests |-> <<>>, pull |-> NoPull,
   \* history: what the last delete_branch of this call met ("none": no call)
   cleanup |-> "none",
   \* history: the calls of branch_exists and its last answer, the sha
   \* get_base_sha returned, and the create_branch request sent
   probes |-> 0, collided |-> FALSE, base_sha |-> "", ref |-> NoRef,
   \* history: how the listing of the open pull requests ended ("none": no call)
   listed |-> "none"]

(***************************************************************************)
(* WorkflowSyncService.run                                                 *)
(***************************************************************************)
Raise(e) ==
  /\ phase' = "raised"
  /\ raised' = e

StartRun ==
  /\ phase \in {"idle", "returned", "raised"}
  /\ runNo < lim.runs
  /\ runNo' = runNo + 1
  /\ phase' = "rate"
  /\ source_workflows' = <<>>
  /\ target_repos' = <<>>
  /\ repos_to_sync' = <<>>
  /\ results' = <<>>
  /\ prev' = results
  /\ raised' = ""
  /\ idx' = 0
  /\ ri' = 0
  /\ tasks' = <<>>
  /\ doneQueue' = <<>>
  /\ faulted' = FALSE
  /\ UNCHANGED <<hostVars, fixedVars, remoteVars>>

\* self._client.check_rate_limit()
RunCheckRateLimit ==
  /\ phase = "rate"
  /\ \E o \in RateOutcomes :
       /\ Inject(o, FALSE)
       /\ IF CheckRateLimitRaises(o) # ""
            THEN Raise(CheckRateLimitRaises(o))
            ELSE phase' = "load" /\ raised' = raised
  /\ UNCHANGED <<hostVars, fixedVars, prev, runNo, source_workflows, target_repos,
                 repos_to_sync, results, idx, ri, taskVars, remoteVars>>

RECURSIVE ApplyFilter(_, _)
ApplyFilter(wfs, filter) ==
  IF wfs = <<>> THEN <<>>
  ELSE IF Head(wfs).filename \in filter
    THEN <<Head(wfs)>> \o ApplyFilter(Tail(wfs), filter)
    ELSE ApplyFilter(Tail(wfs), filter)

\* Faulty variant of FilteredWorkflows: the filter is not applied.
FilteredWorkflows_Unfiltered(dir, filter) == dir

\* _load_source_workflows: the workflows kept, given what the directory holds.
FilteredWorkflows(dir, filter) ==
  IF filter # {} THEN ApplyFilter(dir, filter) ELSE dir

LoadSourceWorkflows ==
  /\ phase = "load"
  /\ \E g \in GetRepoOutcomes, w \in WorkflowFilesOutcomes,
        listing \in SourceListings :
       /\ g # "ok" => w = "ok"
       /\ (g # "ok" \/ w # "ok") => listing = SourceListing
       /\ Inject(IF g = "ok" THEN w ELSE g, FALSE)
       /\ IF GetRepositoryRaises(g) # ""
            THEN /\ Raise(GetRepositoryRaises(g))
                 /\ UNCHANGED source_workflows
          ELSE IF GetWorkflowFilesRaises(w) # ""
            THEN /\ Raise(GetWorkflowFilesRaises(w))
                 /\ UNCHANGED source_workflows
          ELSE IF FilteredWorkflows(WorkflowFiles(listing), cfg.files_filter) = <<>>
            THEN /\ Raise("SourceRepoError")
                 /\ UNCHANGED source_workflows
          ELSE /\ source_workflows' =
                    FilteredWorkflows(WorkflowFiles(listing), cfg.files_filter)
               /\ phase' = "rate_search"
               /\ raised' = raised
  /\ UNCHANGED <<hostVars, fixedVars, prev, runNo, target_repos, repos_to_sync, results, idx,
                 ri, taskVars, remoteVars>>

\* self._client.check_rate_limit(is_search=True)
RunCheckSearchRateLimit ==
  /\ phase = "rate_search"
  /\ \E o \in RateOutcomes :
       /\ Inject(o, FALSE)
       /\ IF CheckRateLimitRaises(o) # ""
            THEN Raise(CheckRateLimitRaises(o))
            ELSE phase' = "search" /\ raised' = raised
  /\ UNCHANGED <<hostVars, fixedVars, prev, runNo, source_workflows, target_repos,
                 repos_to_sync, results, idx, ri, taskVars, remoteVars>>

\* GitHubClient.search_repositories_by_topic: the list returned, given the
\* outcome of the search and what the search would deliver.
SearchReturns(o, found) == IF o = "ok" THEN found ELSE <<>>
SearchRaises(o) ==
  IF o = "net" THEN "search_repositories: network error" ELSE ""

\* Faulty variant of AfterSearch: run() goes on with an empty list.
AfterSearch_NoEarlyReturn(found) == "resolve"

\* "if not target_repos: return []"
AfterSearch(found) == IF found = <<>> THEN "returned" ELSE "resolve"

SearchTargets ==
  /\ phase = "search"
  /\ \E o \in SearchOutcomes, found \in SeqsUpTo(lim.universe, lim.len) :
       /\ o # "ok" => found = <<>>
       /\ Inject(o, FALSE)
       /\ IF SearchRaises(o) # ""
            THEN Raise(SearchRaises(o)) /\ UNCHANGED target_repos
            ELSE /\ target_repos' = SearchReturns(o, found)
                 /\ raised' = raised
                 /\ phase' = AfterSearch(target_repos')
  /\ UNCHANGED <<hostVars, fixedVars, prev, runNo, source_workflows, repos_to_sync, results,
                 idx, ri, taskVars, remoteVars>>

\* Faulty variant of IsSource: the candidate is compared with the bare name.
IsSource_ByShortName(full_name) == full_name = "source"

\* The filter of run's loop over target_repos.
IsSource(full_name) == full_name = SourceRepo

\* One iteration of the loop that filters the source and fetches the handles.
ResolveNext ==
  /\ phase = "resolve"
  /\ ri < Len(target_repos)
  /\ ri' = ri + 1
  /\ LET name == target_repos[ri + 1] IN
       IF IsSource(name)
         THEN UNCHANGED <<repos_to_sync, phase, raised, faulted>>
         ELSE \E g \in GetRepoOutcomes, h \in lim.handles :
                /\ Inject(g, FALSE)
                /\ IF GetRepositoryRaises(g) # ""
                     THEN /\ h = <<FALSE, "main">>
                          /\ Raise(GetRepositoryRaises(g))
                          /\ UNCHANGED repos_to_sync
                     ELSE /\ repos_to_sync' =
                               Append(repos_to_sync, Handle(name, h[1], h[2]))
                          /\ UNCHANGED <<phase, raised>>
  /\ UNCHANGED <<hostVars, fixedVars, prev, runNo, source_workflows, target_repos, results,
                 idx, taskVars, remoteVars>>

\* Faulty variant of Strategy: the flag is ignored.
Strategy_AlwaysSequential(parallel) == "seq"

\* "if parallel: ParallelSyncStrategy(max_workers) else: SequentialSyncStrategy()"
Strategy(parallel) == IF parallel THEN "par" ELSE "seq"

\* The strategy is chosen and handed the handles.
Dispatch ==
  /\ phase = "resolve"
  /\ ri = Len(target_repos)
  /\ phase' = Strategy(cfg.parallel)
  /\ tasks' = [i \in 1..Len(repos_to_sync) |-> NewTask(repos_to_sync[i])]
  /\ UNCHANGED <<hostVars, fixedVars, prev, runNo, source_workflows, target_repos,
                 repos_to_sync, results, raised, idx, ri, doneQueue, remoteVars,
                 faulted>>
(***************************************************************************)
(* sync_single_repo, _check_skip_conditions, _get_required_changes and     *)
(* _create_sync_pr, one step per call to the remote service.               *)
(***************************************************************************)
Running(t) == tasks[t].pc \notin {"queued", "done", "collected"}

\* Faulty variant of Frames: the branch name and the file lists are attributes
\* of the service, so an assignment shows in every call in progress.
Frames_Shared(t, tk) ==
  [u \in DOMAIN tasks |->
     IF u = t THEN tk
     ELSE IF Running(u)
            THEN [tasks[u] EXCEPT !.branch_name = tk.branch_name,
                                  !.files_updated = tk.files_updated,
                                  !.files_failed = tk.files_failed]
            ELSE tasks[u]]

\* The locals of the calls after call t assigned its own (branch_name,
\* files_updated, files_failed and the result are locals of _create_sync_pr and
\* sync_single_repo): the frames of the other calls are untouched.
Frames(t, tk) == [tasks EXCEPT ![t] = tk]

\* The call returns `res`: the task is over (in the parallel strategy its future
\* completes).
Return(t, tk, res) ==
  /\ tasks' = Frames(t,
                 [tk EXCEPT !.pc = "done", !.result = res,
                            !.doneAt = 1 + Cardinality({u \in DOMAIN tasks :
                                             tasks[u].pc \in {"done", "collected"}})])
  /\ doneQueue' = IF cfg.parallel THEN Append(doneQueue, t) ELSE doneQueue

\* The task goes on.
Goto(t, tk, pc) ==
  /\ tasks' = Frames(t, [tk EXCEPT !.pc = pc])
  /\ UNCHANGED doneQueue

\* Faulty variant of OuterError: sync_single_repo has no handler and the
\* exception leaves it.
OuterError_Propagates(name, e) ==
  [repo_name |-> "", status |-> "raised", pr_url |-> NoUrl,
   message |-> Message("", NoUrl, 0, ""), files_updated |-> <<>>,
   files_failed |-> <<>>, branch_created |-> NoBranch]

\* The result sync_single_repo's own handler builds (branch_created is None there).
OuterError(name, e) ==
  SyncResult(name, "error", NoUrl, Message("error", NoUrl, 0, e), <<>>, <<>>,
             NoBranch)

\* The result _create_sync_pr's handler builds.
InnerError(name, e, updated, failed, branch) ==
  SyncResult(name, "error", NoUrl, Message("error", NoUrl, 0, e), updated,
             failed, branch)

\* Faulty variant of Skipped: the URL of the pull request found is returned as
\* pr_url.
Skipped_WithUrl(name, kind, url) ==
  [repo_name |-> name, status |-> "skipped", pr_url |-> url,
   message |-> Message(kind, url, 0, ""), files_updated |-> <<>>,
   files_failed |-> <<>>, branch_created |-> NoBranch]

Skipped(name, kind, url) ==
  SyncResult(name, "skipped", NoUrl, Message(kind, url, 0, ""), <<>>, <<>>,
             NoBranch)

RECURSIVE WithPrefix(_, _)
WithPrefix(open, p) ==
  IF open = <<>> THEN <<>>
  ELSE IF StartsWith(Head(open).head, p)
    THEN <<Head(open).url>> \o WithPrefix(Tail(open), p)
    ELSE WithPrefix(Tail(open), p)

ListPrOutcomes == {"ok", "gh", "net"}

\* Faulty variant of OpenPrsWithPrefix: no pull request is ever matched.
OpenPrsWithPrefix_NoMatch(open, prefix, o) == <<>>

\* GitHubClient.get_open_prs_with_prefix: the URLs returned, given the open pull
\* requests and the outcome of listing them (a failure of the listing is taken
\* to strike before the first page arrives).
OpenPrsWithPrefix(open, prefix, o) ==
  IF o = "ok" THEN WithPrefix(open, prefix) ELSE <<>>

\* Faulty variant of OpenPrsRaises: a GithubException leaves the method too.
OpenPrsRaises_NotSwallowed(o) == IF o # "ok" THEN "get_pulls: network error" ELSE ""

\* "except GithubException" only: any other exception leaves the method.
OpenPrsRaises(o) == IF o = "net" THEN "get_pulls: network error" ELSE ""

\* Faulty variant of SkipReason: the default branch is looked at before the
\* archived flag.
SkipReason_BranchFirst(h, existing_prs) ==
  IF h.default_branch = "raises" THEN "empty_repository"
  ELSE IF h.default_branch = "" THEN "no_default_branch"
  ELSE IF h.archived THEN "archived"
  ELSE IF existing_prs # <<>> THEN "existing_pr"
  ELSE "none"

\* The steps of _check_skip_conditions: which of its checks answers.
SkipReason(h, existing_prs) ==
  IF h.archived THEN "archived"
  ELSE IF h.default_branch = "raises" THEN "empty_repository"
  ELSE IF h.default_branch = "" THEN "no_default_branch"
  ELSE IF existing_prs # <<>> THEN "existing_pr"
  ELSE "none"

\* _check_skip_conditions, then sync_single_repo's use of its answer.
CheckSkipConditions(t) ==
  /\ tasks[t].pc = "skip"
  /\ LET h == tasks[t].repo
         r == h.full_name
         had == WithPrefix(prs[r], BRANCH_PREFIX) # <<>>
         tk == [tasks[t] EXCEPT !.hadSyncPR = had]
     IN
       IF SkipReason(h, <<>>) # "none"
         THEN /\ Return(t, tk, Skipped(tasks[t].repo.name, SkipReason(h, <<>>), NoUrl))
              /\ UNCHANGED faulted
         ELSE \E o \in ListPrOutcomes :
           LET existing_prs == OpenPrsWithPrefix(prs[r], BRANCH_PREFIX, o)
               tl == [tk EXCEPT !.guard = IF ~had THEN "none"
                                          ELSE IF o = "ok" THEN "seen"
                                          ELSE IF o = "gh" THEN "missed"
                                          ELSE "failed",
                                !.listed = o]
           IN
             /\ Inject(o, FALSE)
             /\ IF OpenPrsRaises(o) # ""
                  THEN Return(t, tl, OuterError(tasks[t].repo.name, OpenPrsRaises(o)))
                ELSE IF SkipReason(h, existing_prs) # "none"
                  THEN Return(t, tl, Skipped(tasks[t].repo.name, SkipReason(h, existing_prs),
                                             existing_prs[1]))
                ELSE Goto(t, tl, "diff")
  /\ UNCHANGED <<hostVars, fixedVars, prev, runVars, remoteVars>>

FileChange(f, c, sha) == [filename |-> f, content |-> c, existing_sha |-> sha]

\* Faulty variant of RequiredChanges: the version token of a file to update is
\* not passed on.
RECURSIVE RequiredChanges_NoToken(_, _)
RequiredChanges_NoToken(wfs, remote) ==
  IF wfs = <<>> THEN <<>>
  ELSE LET w == Head(wfs)
           cur == remote[w.filename]
           rest == RequiredChanges_NoToken(Tail(wfs), remote)
       IN IF ~cur.exists \/ Strip(cur.content) # Strip(w.content)
            THEN <<FileChange(w.filename, w.content, "")>> \o rest
            ELSE rest

\* Faulty variant of RequiredChanges: the texts are compared as they are.
RECURSIVE RequiredChanges_NoStrip(_, _)
RequiredChanges_NoStrip(wfs, remote) ==
  IF wfs = <<>> THEN <<>>
  ELSE LET w == Head(wfs)
           cur == remote[w.filename]
           rest == RequiredChanges_NoStrip(Tail(wfs), remote)
       IN IF ~cur.exists
            THEN <<FileChange(w.filename, w.content, "")>> \o rest
          ELSE IF cur.content # w.content
            THEN <<FileChange(w.filename, w.content, cur.sha)>> \o rest
          ELSE rest

\* _get_required_changes, given the files of the target's default branch.
RECURSIVE RequiredChanges(_, _)
RequiredChanges(wfs, remote) ==
  IF wfs = <<>> THEN <<>>
  ELSE LET w == Head(wfs)
           cur == remote[w.filename]
           rest == RequiredChanges(Tail(wfs), remote)
       IN IF ~cur.exists
            THEN <<FileChange(w.filename, w.content, "")>> \o rest
          ELSE IF Strip(cur.content) # Strip(w.content)
            THEN <<FileChange(w.filename, w.content, cur.sha)>> \o rest
          ELSE rest

Names(changes) == [i \in 1..Len(changes) |-> changes[i].filename]

\* Faulty variant of Decide: dry_run is not looked at.
Decide_IgnoresDryRun(changes, dry_run) ==
  IF changes = <<>> THEN "no_changes" ELSE "transaction"

\* What sync_single_repo does with the changes.
Decide(changes, dry_run) ==
  IF changes = <<>> THEN "no_changes"
  ELSE IF dry_run THEN "dry_run"
  ELSE "transaction"

CallOutcomes == {"ok", "gh"}

\* The reads of the diff: besides the failures every call has, the answer 401
\* (the credentials are no longer accepted).
ReadOutcomes == CallOutcomes \cup {"401"}

\* GitHubClient.get_file_content: the exception that leaves it, "" if none.  A
\* 401 is a GithubException whose status is not 404: it is raised as it is.
GetFileContentRaises(o) ==
  CASE o = "ok" -> ""
    [] o = "401" -> "401 Bad credentials"
    [] OTHER -> "get_contents"

GetRequiredChanges(t) ==
  /\ tasks[t].pc = "diff"
  /\ LET r == tasks[t].repo.full_name
         changes == RequiredChanges(source_workflows, files[r])
         tk == [tasks[t] EXCEPT !.changes = changes]
     IN \E o \in ReadOutcomes :
          /\ Inject(o, FALSE)
          /\ IF GetFileContentRaises(o) # ""
               THEN Return(t, tasks[t],
                           OuterError(tasks[t].repo.name, GetFileContentRaises(o)))
             ELSE IF Decide(changes, cfg.dry_run) = "no_changes"
               THEN Return(t, tk,
                      SyncResult(tasks[t].repo.name, "no_changes", NoUrl,
                                 Message("up_to_date", NoUrl, 0, ""),
                                 <<>>, <<>>, NoBranch))
             ELSE IF Decide(changes, cfg.dry_run) = "dry_run"
               THEN Return(t, tk,
                      SyncResult(tasks[t].repo.name, "skipped", NoUrl,
                                 Message("dry_run", NoUrl, Len(changes), ""),
                                 Names(changes), <<>>, NoBranch))
             ELSE Goto(t, tk, "base")
  /\ UNCHANGED <<hostVars, fixedVars, prev, runVars, remoteVars>>

\* What get_ref("heads/<branch>").object.sha stands for: the head of the branch.
HeadSha(branch) == IF branch = "" THEN "" ELSE "head"

\* get_base_sha(repo, repo.default_branch)
GetBaseSha(t) ==
  /\ tasks[t].pc = "base"
  /\ LET r == tasks[t].repo.full_name IN
       \E o \in CallOutcomes :
         /\ Inject(o, FALSE)
         /\ IF o # "ok"
              THEN Return(t, tasks[t],
                          InnerError(tasks[t].repo.name, "get_ref", <<>>, <<>>, NoBranch))
              ELSE Goto(t, [tasks[t] EXCEPT !.base_sha = HeadSha(tasks[t].repo.default_branch)],
                        "name")
  /\ UNCHANGED <<hostVars, fixedVars, prev, runVars, remoteVars>>

\* The clock reads the millisecond of the last reading or a later one.
Timestamps == {now, now + 1} \ {0}

\* Faulty variant of UniqueBranchName: the name is built from another prefix.
UniqueBranchName_OtherPrefix(ts, exists, rnd) ==
  [prefix |-> "sync/update", ts |-> ts, rnd |-> IF exists THEN rnd ELSE 0]

\* Faulty variant of UniqueBranchName: the random suffix is always appended.
UniqueBranchName_AlwaysSuffix(ts, exists, rnd) == SyncBranch(ts, rnd)

\* _generate_unique_branch_name, given the clock, branch_exists' answer and the
\* random number drawn.
UniqueBranchName(ts, exists, rnd) ==
  IF exists THEN SyncBranch(ts, rnd) ELSE SyncBranch(ts, 0)

GenerateUniqueBranchName(t) ==
  /\ tasks[t].pc = "name"
  /\ LET r == tasks[t].repo.full_name IN
       \E ts \in Timestamps, o \in CallOutcomes, rnd \in {SUFFIX_MIN, SUFFIX_MAX} :
         LET exists == SyncBranch(ts, 0) \in branches[r] IN
           /\ (o # "ok" \/ ~exists) => rnd = SUFFIX_MIN
           /\ Inject(o, FALSE)
           /\ now' = ts
           /\ IF o # "ok"
                THEN Return(t, [tasks[t] EXCEPT !.probes = @ + 1],
                            InnerError(tasks[t].repo.name, "branch_exists", <<>>, <<>>, NoBranch))
                ELSE Goto(t, [tasks[t] EXCEPT
                                !.branch_name = UniqueBranchName(ts, exists, rnd),
                                !.probes = @ + 1, !.collided = exists],
                          "create")
  /\ UNCHANGED <<hostVars, fixedVars, prev, runVars, branches, prs, prCount>>

Bump(calls, what) == [calls EXCEPT ![what] = @ + 1]

\* Faulty variant of CreateBranch: a failure of create_branch is swallowed and
\* the writes go on.
CreateBranch_FailureIgnored(t) ==
  /\ tasks[t].pc = "create"
  /\ LET r == tasks[t].repo.full_name
         b == tasks[t].branch_name
         tk == [tasks[t] EXCEPT !.calls = Bump(@, "create"), !.wi = 1,
                                !.ref = [name |-> b, sha |-> tasks[t].base_sha]]
     IN \E o \in CallOutcomes :
          /\ Inject(o, b \in branches[r])
          /\ IF o = "ok"
               THEN /\ branches' = [branches EXCEPT ![r] = @ \cup {b}]
                    /\ Goto(t, [tk EXCEPT !.created = TRUE], "write")
               ELSE /\ UNCHANGED branches
                    /\ Goto(t, tk, "write")
  /\ UNCHANGED <<hostVars, fixedVars, prev, runVars, prs, prCount, now>>

\* create_branch(repo, branch_name, base_sha); a failure goes to the handler of
\* _create_sync_pr with branch_name already set.
CreateBranch(t) ==
  /\ tasks[t].pc = "create"
  /\ LET r == tasks[t].repo.full_name
         b == tasks[t].branch_name
         tk == [tasks[t] EXCEPT !.calls = Bump(@, "create"),
                                !.ref = [name |-> b, sha |-> tasks[t].base_sha]]
     IN \E o \in CallOutcomes :
          /\ Inject(o, b \in branches[r])
          /\ IF o = "ok"
               THEN /\ branches' = [branches EXCEPT ![r] = @ \cup {b}]
                    /\ Goto(t, [tk EXCEPT !.created = TRUE, !.wi = 1], "write")
               ELSE /\ UNCHANGED branches
                    /\ Goto(t, [tk EXCEPT !.exc = "create_branch"], "except")
  /\ UNCHANGED <<hostVars, fixedVars, prev, runVars, prs, prCount, now>>

\* Faulty variant of AfterWrites: the check for "no file updated" is missing.
AfterWrites_NoCleanup(files_updated) == "pr"

\* Where _create_sync_pr goes once every change has been attempted.
AfterWrites(files_updated) == IF files_updated = <<>> THEN "all_failed" ELSE "pr"

\* Faulty variant of FileOperation: the version token is not looked at.
FileOperation_AlwaysCreate(sha) == "create_file"

\* create_or_update_file: "if sha: repo.update_file(...) else: repo.create_file(...)"
FileOperation(sha) == IF sha # "" THEN "update_file" ELSE "create_file"

\* f"chore: {'sync' if change.existing_sha else 'add'} workflow {filename}"
CommitMessage(change) == IF change.existing_sha # "" THEN "sync" ELSE "add"

\* The request create_or_update_file sends for a change.
WriteRequest(change, branch) ==
  [filename |-> change.filename, content |-> change.content,
   message |-> CommitMessage(change), branch |-> branch,
   sha |-> change.existing_sha, operation |-> FileOperation(change.existing_sha)]

\* Faulty variant of NextWrite: a failed write ends the loop.
NextWrite_StopsOnFailure(tw) ==
  IF tw.wi > Len(tw.changes) \/ tw.files_failed # <<>>
    THEN AfterWrites(tw.files_updated)
    ELSE "write"

\* The loop over the changes goes on until every change has been attempted; the
\* handler inside it catches every exception of a write.
NextWrite(tw) ==
  IF tw.wi > Len(tw.changes) THEN AfterWrites(tw.files_updated) ELSE "write"

\* One iteration of the loop over the changes: create_or_update_file.
WriteFile(t) ==
  /\ tasks[t].pc = "write"
  /\ LET r == tasks[t].repo.full_name
         b == tasks[t].branch_name
         change == tasks[t].changes[tasks[t].wi]
         tk == [tasks[t] EXCEPT !.calls = Bump(@, "write"), !.wi = @ + 1,
                                !.requests = Append(@, WriteRequest(change, b))]
     IN \E o \in CallOutcomes :
          /\ Inject(o, b \notin branches[r])
          /\ LET tw == IF o = "ok"
                         THEN [tk EXCEPT !.files_updated = Append(@, change.filename)]
                         ELSE [tk EXCEPT !.files_failed = Append(@, change.filename)]
             IN Goto(t, tw, NextWrite(tw))
  /\ UNCHANGED <<hostVars, fixedVars, prev, runVars, remoteVars>>

DeleteOutcomes == {"ok", "gh", "net"}

\* GitHubClient.delete_branch: a GithubException is logged, anything else leaves
\* the method.
DeleteBranchRaises(o) == IF o = "net" THEN "delete_branch: network error" ELSE ""

\* The remote side of a successful delete: the branch goes, and with it the open
\* pull requests it heads.
RECURSIVE WithoutHead(_, _)
WithoutHead(open, b) ==
  IF open = <<>> THEN <<>>
  ELSE IF Head(open).head = b THEN WithoutHead(Tail(open), b)
  ELSE <<Head(open)>> \o WithoutHead(Tail(open), b)

DeleteBranch(r, b, o) ==
  /\ Inject(o, b \notin branches[r])
  /\ IF o = "ok"
       THEN /\ branches' = [branches EXCEPT ![r] = @ \ {b}]
            /\ prs' = [prs EXCEPT ![r] = WithoutHead(@, b)]
       ELSE UNCHANGED <<branches, prs>>

\* "Si ningun archivo se actualizo, cleanup y error"
AllUpdatesFailed(t) ==
  /\ tasks[t].pc = "all_failed"
  /\ LET r == tasks[t].repo.full_name
         b == tasks[t].branch_name
         tk == [tasks[t] EXCEPT !.calls = Bump(@, "delete")]
     IN \E o \in DeleteOutcomes :
          /\ DeleteBranch(r, b, o)
          /\ IF DeleteBranchRaises(o) # ""
               THEN Goto(t, [tk EXCEPT !.exc = DeleteBranchRaises(o), !.cleanup = o],
                         "except")
               ELSE Return(t, [tk EXCEPT !.cleanup = o],
                      SyncResult(tasks[t].repo.name, "error", NoUrl,
                                 Message("all_failed", NoUrl, 0, ""),
                                 <<>>, tk.files_failed, b))
  /\ UNCHANGED <<hostVars, fixedVars, prev, runVars, prCount, now>>

\* create_pull_request(head=branch_name, base=repo.default_branch)
CreatePullRequest(t) ==
  /\ tasks[t].pc = "pr"
  /\ LET r == tasks[t].repo.full_name
         b == tasks[t].branch_name
         tk == [tasks[t] EXCEPT !.calls = Bump(@, "pr"),
                                !.pull = [head |-> b,
                                          base |-> tasks[t].repo.default_branch]]
         url == PrUrl(r, prCount[r] + 1)
     IN \E o \in CallOutcomes :
          /\ Inject(o, b \notin branches[r]
                       \/ \E i \in 1..Len(prs[r]) : prs[r][i].head = b)
          /\ IF o = "ok"
               THEN /\ prs' = [prs EXCEPT ![r] = <<[head |-> b, url |-> url]>> \o @]
                    /\ prCount' = [prCount EXCEPT ![r] = @ + 1]
                    /\ Return(t, tk,
                         SyncResult(tasks[t].repo.name, "success", url,
                                    Message("updated", NoUrl, Len(tk.files_updated), ""),
                                    tk.files_updated, tk.files_failed, b))
               ELSE /\ UNCHANGED <<prs, prCount>>
                    /\ Goto(t, [tk EXCEPT !.exc = "create_pull"], "except")
  /\ UNCHANGED <<hostVars, fixedVars, prev, runVars, branches, now>>

\* Faulty variant of HandleException: the Error result is built without the
\* cleanup.
HandleException_NoCleanup(t) ==
  /\ tasks[t].pc = "except"
  /\ Return(t, tasks[t],
            InnerError(tasks[t].repo.name, tasks[t].exc, tasks[t].files_updated,
                       tasks[t].files_failed, tasks[t].branch_name))
  /\ UNCHANGED <<hostVars, fixedVars, prev, runVars, remoteVars, faulted>>

\* The handler of _create_sync_pr with branch_name set: delete_branch, then the
\* Error result; an exception of delete_branch reaches sync_single_repo's handler.
HandleException(t) ==
  /\ tasks[t].pc = "except"
  /\ LET r == tasks[t].repo.full_name
         b == tasks[t].branch_name
         tk == [tasks[t] EXCEPT !.calls = Bump(@, "delete")]
     IN \E o \in DeleteOutcomes :
          /\ DeleteBranch(r, b, o)
          /\ IF DeleteBranchRaises(o) # ""
               THEN Return(t, [tk EXCEPT !.cleanup = o],
                           OuterError(tasks[t].repo.name, DeleteBranchRaises(o)))
               ELSE Return(t, [tk EXCEPT !.cleanup = o],
                      InnerError(tasks[t].repo.name, tk.exc, tk.files_updated, tk.files_failed, b))
  /\ UNCHANGED <<hostVars, fixedVars, prev, runVars, prCount, now>>

(***************************************************************************)
(* SequentialSyncStrategy.sync                                             *)
(***************************************************************************)
\* Faulty variant of RateCheckDue: the first repository is preceded by a check.
RateCheckDue_FromZero(i) == i % RATE_CHECK_EVERY = 0

\* "if idx > 0 and idx % 5 == 0"
RateCheckDue(i) == i > 0 /\ i % RATE_CHECK_EVERY = 0

\* The head of one iteration: the periodic rate-limit check, then the call of
\* sync_single_repo.
SeqBegin ==
  /\ phase = "seq"
  /\ idx < Len(tasks)
  /\ tasks[idx + 1].pc = "queued"
  /\ \E o \in RateOutcomes :
       /\ IF RateCheckDue(idx) THEN Inject(o, FALSE)
                               ELSE o = "ok" /\ UNCHANGED faulted
       /\ IF RateCheckDue(idx) /\ CheckRateLimitRaises(o) # ""
            THEN /\ Raise(CheckRateLimitRaises(o))
                 /\ tasks' = [tasks EXCEPT ![idx + 1].rateChecked = TRUE]
            ELSE /\ tasks' = [tasks EXCEPT ![idx + 1].pc = "skip",
                                           ![idx + 1].rateChecked = RateCheckDue(idx)]
                 /\ UNCHANGED <<phase, raised>>
  /\ UNCHANGED <<hostVars, fixedVars, prev, runNo, source_workflows, target_repos,
                 repos_to_sync, results, idx, ri, doneQueue, remoteVars>>

\* The tail of the iteration: the result is appended, then
\* handle_post_operation_rate_limit, which swallows every exception.
SeqFinish ==
  /\ phase = "seq"
  /\ idx < Len(tasks)
  /\ tasks[idx + 1].pc = "done"
  /\ results' = Append(results, tasks[idx + 1].result)
  /\ tasks' = [tasks EXCEPT ![idx + 1].pc = "collected",
                            ![idx + 1].paced = @ + 1]
  /\ idx' = idx + 1
  /\ UNCHANGED <<hostVars, fixedVars, prev, runNo, phase, source_workflows, target_repos,
                 repos_to_sync, raised, ri, doneQueue, remoteVars, faulted>>

SeqReturn ==
  /\ phase = "seq"
  /\ idx = Len(tasks)
  /\ phase' = "returned"
  /\ UNCHANGED <<hostVars, fixedVars, prev, runNo, source_workflows, target_repos,
                 repos_to_sync, results, raised, idx, ri, taskVars, remoteVars,
                 faulted>>

(***************************************************************************)
(* ParallelSyncStrategy.sync                                               *)
(***************************************************************************)
\* Faulty variant of WorkerFree: the pool starts a thread for every call.
WorkerFree_Unbounded(busy, width) == TRUE

\* ThreadPoolExecutor(max_workers=...): a submitted call starts only while
\* fewer than max_workers calls are running.
WorkerFree(busy, width) == busy < width

\* A free worker of the pool takes the next submitted call.
ParStart(t) ==
  /\ phase = "par"
  /\ tasks[t].pc = "queued"
  /\ \A u \in 1..(t - 1) : tasks[u].pc # "queued"
  /\ WorkerFree(Cardinality({u \in DOMAIN tasks : Running(u)}), cfg.max_workers)
  /\ tasks' = [tasks EXCEPT ![t].pc = "skip"]
  /\ UNCHANGED <<hostVars, fixedVars, prev, runVars, doneQueue, remoteVars, faulted>>

\* Faulty variant of Collected: future.result() is used without the handler.
Collected_NoHandler(task) == task.result

\* What the loop over as_completed appends for a future: its result, or the
\* Error built from the exception the worker raised (message=str(exc)).
Collected(task) ==
  IF task.result.status = "raised"
    THEN SyncResult(task.repo.name, "error", NoUrl,
                    Message("raised", NoUrl, 0, task.exc), <<>>, <<>>, NoBranch)
    ELSE task.result

ParCollect ==
  /\ phase = "par"
  /\ doneQueue # <<>>
  /\ results' = Append(results, Collected(tasks[Head(doneQueue)]))
  /\ tasks' = [tasks EXCEPT ![Head(doneQueue)].pc = "collected"]
  /\ doneQueue' = Tail(doneQueue)
  /\ UNCHANGED <<hostVars, fixedVars, prev, runNo, phase, source_workflows, target_repos,
                 repos_to_sync, raised, idx, ri, remoteVars, faulted>>

ParReturn ==
  /\ phase = "par"
  /\ \A t \in DOMAIN tasks : tasks[t].pc = "collected"
  /\ phase' = "returned"
  /\ UNCHANGED <<hostVars, fixedVars, prev, runNo, source_workflows, target_repos,
                 repos_to_sync, results, raised, idx, ri, taskVars, remoteVars,
                 faulted>>

(***************************************************************************)
(* The specifications.                                                     *)
(***************************************************************************)
TaskStep(t) ==
  \/ CheckSkipConditions(t)
  \/ GetRequiredChanges(t)
  \/ GetBaseSha(t)
  \/ GenerateUniqueBranchName(t)
  \/ CreateBranch(t)
  \/ WriteFile(t)
  \/ AllUpdatesFailed(t)
  \/ CreatePullRequest(t)
  \/ HandleException(t)

Next ==
  \/ StartRun
  \/ RunCheckRateLimit
  \/ LoadSourceWorkflows
  \/ RunCheckSearchRateLimit
  \/ SearchTargets
  \/ ResolveNext
  \/ Dispatch
  \/ SeqBegin
  \/ SeqFinish
  \/ SeqReturn
  \/ \E t \in DOMAIN tasks : ParStart(t) \/ TaskStep(t)
  \/ ParCollect
  \/ ParReturn

Spec == Init /\ [][Next]_vars

SpecRepo == InitRepo /\ [][Next]_vars

SpecLong == InitLong /\ [][Next]_vars

(***************************************************************************)
(* The strategies over a worker that may raise.  Both strategies take the  *)
(* service as a parameter and call its sync_single_repo; here the call may *)
(* end with an exception instead of a result, at any of its steps.         *)
(***************************************************************************)
\* The result slot of a call that raised.
Raised == [NoResult EXCEPT !.status = "raised"]

\* sync_single_repo raises: the future completes with the exception (parallel),
\* or the exception leaves the loop of the sequential strategy and run().
WorkerRaises(t) ==
  /\ Running(t)
  /\ Inject("net", FALSE)
  /\ Return(t, [tasks[t] EXCEPT !.exc = "unexpected"], Raised)
  /\ IF cfg.parallel THEN UNCHANGED <<phase, raised>> ELSE Raise("unexpected")
  /\ UNCHANGED <<hostVars, fixedVars, prev, runNo, source_workflows, target_repos,
                 repos_to_sync, results, idx, ri, remoteVars>>

NextWorker == Next \/ \E t \in DOMAIN tasks : WorkerRaises(t)

SpecWorker == Init /\ [][NextWorker]_vars

(***************************************************************************)
(* Vocabulary of the properties.                                           *)
(***************************************************************************)
RECURSIVE Count(_, _)
Count(seq, x) ==
  IF seq = <<>> THEN 0
  ELSE (IF Head(seq) = x THEN 1 ELSE 0) + Count(Tail(seq), x)

SameBag(s1, s2) ==
  /\ Len(s1) = Len(s2)
  /\ \A i \in DOMAIN s1 : Count(s1, s1[i]) = Count(s2, s1[i])

RepoNames(rs) == [i \in DOMAIN rs |-> rs[i].repo_name]
StatusPairs(rs) ==
  [i \in DOMAIN rs |-> [repo |-> rs[i].repo_name, status |-> rs[i].status]]

Done(t) == tasks[t].pc \in {"done", "collected"}
RunOver == phase \in {"returned", "raised"}

\* The transaction of task t has attempted every one of its writes.
WritesAttempted(t) ==
  /\ tasks[t].created
  /\ tasks[t].changes # <<>>
  /\ tasks[t].wi > Len(tasks[t].changes)

\* Every workflow of the source is on the target with the same text, up to
\* surrounding whitespace.
InSync(r) ==
  /\ source_workflows # <<>>
  /\ \A i \in DOMAIN source_workflows :
       LET w == source_workflows[i] IN
         /\ files[r][w.filename].exists
         /\ Strip(files[r][w.filename].content) = Strip(w.content)

\* What the sequential strategy returns for the handles `hs` when no call to the
\* remote service fails; `withPR` are the targets with an open sync pull request.
RECURSIVE SequentialOutcomes(_, _)
SequentialOutcomes(hs, withPR) ==
  IF hs = <<>> THEN <<>>
  ELSE
    LET h == Head(hs)
        r == h.full_name
        guard == IF r \in withPR THEN <<PrUrl(r, 0)>> ELSE <<>>
        todo == Decide(RequiredChanges(source_workflows, files[r]), cfg.dry_run)
        status == IF SkipReason(h, guard) # "none" THEN "skipped"
                  ELSE IF todo = "no_changes" THEN "no_changes"
                  ELSE IF todo = "dry_run" THEN "skipped"
                  ELSE "success"
    IN <<[repo |-> h.name, status |-> status]>> \o
       SequentialOutcomes(Tail(hs),
                          IF status = "success" THEN withPR \cup {r} ELSE withPR)

(***************************************************************************)
(* C1: access failure of one target.                                       *)
(***************************************************************************)
\* C1: a failure of get_repository for a candidate (RepositoryAccessError, or
\* not-found) while run() resolves the handles never leaves run(): the only
\* place such an exception may leave run() from is the loading of the source.
C1_AccessFailureDoesNotAbort ==
  (phase = "raised" /\ raised \in {"RepositoryAccessError", "SourceRepoError"})
    => ri = 0

(***************************************************************************)
(* C2: one outcome per candidate.                                          *)
(***************************************************************************)
\* C2: once a run that found at least one candidate is over, its outcome list
\* holds exactly one outcome for every occurrence of a candidate other than the
\* source, and none for the source.
C2_OneOutcomePerCandidate ==
  (RunOver /\ target_repos # <<>>) =>
    \A r \in AllRepos :
      Count(RepoNames(results), ShortName(r)) =
        IF r = SourceRepo THEN 0 ELSE Count(target_repos, r)

\* The second way out of the batch: the sequential strategy's periodic
\* check_rate_limit raises and sync() is left with the outcomes collected so far
\* lost.
C2_RateCheckKeepsBatch == ~(phase = "raised" /\ tasks # <<>>)

(***************************************************************************)
(* C3: partial-write resilience.                                           *)
(***************************************************************************)
\* C3 (what the code guarantees): once a transaction with N changes has
\* attempted its N writes, M of them failing, files_updated has N-M names and
\* files_failed M.  If M < N, create_pull_request is called once; if it
\* succeeds the outcome is Success with those two lists and the pull request's
\* URL, if it fails delete_branch is called and the outcome is Error without a
\* URL.  If M = N the outcome is Error, create_pull_request is never called and
\* delete_branch is called.
C3_PartialWrite ==
  \A t \in DOMAIN tasks :
    LET tk == tasks[t]
        N == Len(tk.changes)
        M == Len(tk.files_failed)
    IN (Done(t) /\ WritesAttempted(t)) =>
         /\ Len(tk.files_updated) = N - M
         /\ IF M < N
              THEN /\ tk.calls.pr = 1
                   /\ IF tk.exc # "create_pull"
                        THEN /\ tk.result.status = "success"
                             /\ tk.result.files_updated = tk.files_updated
                             /\ tk.result.files_failed = tk.files_failed
                             /\ tk.result.pr_url # NoUrl
                             /\ tk.calls.delete = 0
                        ELSE /\ tk.result.status = "error"
                             /\ tk.result.pr_url = NoUrl
                             /\ tk.calls.delete = 1
              ELSE /\ tk.result.status = "error"
                   /\ tk.result.pr_url = NoUrl
                   /\ tk.calls.pr = 0
                   /\ tk.calls.delete >= 1

\* C3 as stated: M < N gives Success with a pull request; M = N gives Error, no
\* pull request, and the created branch is gone.
C3_AsStated ==
  \A t \in DOMAIN tasks :
    LET tk == tasks[t]
        N == Len(tk.changes)
        M == Len(tk.files_failed)
    IN (Done(t) /\ WritesAttempted(t)) =>
         IF M < N
           THEN /\ tk.result.status = "success"
                /\ Len(tk.result.files_updated) = N - M
                /\ Len(tk.result.files_failed) = M
                /\ tk.result.pr_url # NoUrl
           ELSE /\ tk.result.status = "error"
                /\ tk.result.pr_url = NoUrl
                /\ tk.branch_name \notin branches[tk.repo.full_name]

\* A transaction of two changes, one write failed, ended in Success.
C3_Witness ==
  \E t \in DOMAIN tasks :
    /\ Done(t) /\ WritesAttempted(t)
    /\ Len(tasks[t].changes) = 2
    /\ Len(tasks[t].files_failed) = 1
    /\ tasks[t].result.status = "success"

C6_DryRunPurity ==
  cfg.dry_run =>
    /\ branches = [r \in TargetRepos |-> {FeatureBranch}]
    /\ prCount = [r \in TargetRepos |-> 1]
    /\ \A r \in TargetRepos : Len(prs[r]) = 1
    /\ \A t \in DOMAIN tasks :
         LET tk == tasks[t] IN
           /\ tk.calls = NoCalls
           /\ ~tk.created
           /\ (Done(t) /\ tk.changes # <<>>) =>
                /\ tk.result.status = "skipped"
                /\ tk.result.message.kind = "dry_run"
                /\ tk.result.files_updated = Names(tk.changes)
                /\ tk.changes =
                     RequiredChanges(source_workflows, files[tk.repo.full_name])
                /\ tk.result.branch_created = NoBranch
                /\ tk.result.pr_url = NoUrl

\* A dry run returned the outcome of a target with two pending changes.
C6_Witness ==
  /\ cfg.dry_run
  /\ phase = "returned"
  /\ \E i \in DOMAIN results :
       /\ results[i].status = "skipped"
       /\ Len(results[i].files_updated) = 2

(***************************************************************************)
(* C7: the source is no target.                                            *)
(***************************************************************************)
\* C7: the source repository is never among the resolved handles, never among
\* the calls a strategy makes, never among the outcomes.
C7_SourceExcluded ==
  /\ \A i \in DOMAIN repos_to_sync : repos_to_sync[i].full_name # SourceRepo
  /\ \A t \in DOMAIN tasks : tasks[t].repo.full_name # SourceRepo
  /\ \A i \in DOMAIN results :
       results[i].repo_name \notin {SourceRepo, ShortName(SourceRepo)}
  /\ Len(repos_to_sync) <= ri - Count(SubSeq(target_repos, 1, ri), SourceRepo)

\* Topic search returned the source among the candidates and the run returned
\* outcomes.
C7_Witness ==
  /\ phase = "returned"
  /\ Count(target_repos, SourceRepo) > 0
  /\ results # <<>>

(***************************************************************************)
(* C8: sequential and parallel strategy.                                   *)
(***************************************************************************)
\* C8: when no call to the remote service fails, the outcomes a run returns
\* are, as a multiset of (repository, status), the ones the sequential strategy
\* returns for the same handles and remote state, whichever strategy ran.
C8_SchedulingEquivalence ==
  (phase = "returned" /\ lim.faults = "one" /\ ~faulted /\ runNo = 1) =>
    SameBag(StatusPairs(results), SequentialOutcomes(repos_to_sync, {}))

\* The same for the sequential strategy alone: SequentialOutcomes is what it
\* returns.
C8_SequentialReference == cfg.parallel \/ C8_SchedulingEquivalence

C10_SuccessShape ==
  /\ \A i \in DOMAIN results :
       results[i].status = "success" =>
         /\ results[i].files_updated # <<>>
         /\ results[i].branch_created # NoBranch
  /\ \A t \in DOMAIN tasks :
       tasks[t].result.status = "success" =>
         /\ tasks[t].result.files_updated # <<>>
         /\ tasks[t].result.branch_created = tasks[t].branch_name
         /\ tasks[t].branch_name # NoBranch

\* A run returned a Success outcome whose transaction lost one of its writes.
C10_Witness ==
  /\ phase = "returned"
  /\ \E i \in DOMAIN results :
       /\ results[i].status = "success"
       /\ results[i].files_failed # <<>>

(***************************************************************************)
(* C11: cleanup before the Error of a transaction.                         *)
(***************************************************************************)
\* C11: a transaction that fails after its branch was created (every write
\* failed, or create_pull_request failed after a successful write) returns
\* Error, never Success, and has called delete_branch on its branch before the
\* outcome is returned.
C11_CleanupBeforeError ==
  \A t \in DOMAIN tasks :
    LET tk == tasks[t] IN
      /\ (tk.created /\ tk.result.status \in {"error", "skipped", "no_changes"})
           => (tk.result.status = "error" /\ tk.calls.delete >= 1)
      /\ (Done(t) /\ WritesAttempted(t)
          /\ (tk.files_updated = <<>> \/ tk.exc = "create_pull"))
           => (tk.result.status = "error" /\ tk.calls.delete >= 1)
      /\ tk.calls.delete >= 1 => tk.branch_name # NoBranch

\* A transaction wrote a file, failed to open the pull request, called
\* delete_branch and returned Error.
C11_Witness ==
  \E t \in DOMAIN tasks :
    /\ Done(t)
    /\ tasks[t].created
    /\ tasks[t].files_updated # <<>>
    /\ tasks[t].exc = "create_pull"
    /\ tasks[t].calls.delete = 1
    /\ tasks[t].result.status = "error"

(***************************************************************************)
(* C12: order of the steps of a transaction.                               *)
(***************************************************************************)
\* C12: a write is issued only after create_branch has succeeded, and
\* create_pull_request only after every change has been attempted (one write
\* per change) with at least one write successful; create_branch and
\* create_pull_request are each called at most once.
C12_StepsOrdered ==
  \A t \in DOMAIN tasks :
    LET tk == tasks[t] IN
      /\ tk.calls.create <= 1
      /\ tk.calls.pr <= 1
      /\ tk.calls.write > 0 => (tk.created /\ tk.calls.create = 1)
      /\ tk.calls.write <= Len(tk.changes)
      /\ tk.calls.write = Len(tk.files_updated) + Len(tk.files_failed)
      /\ tk.calls.pr > 0 =>
           /\ tk.created
           /\ tk.calls.write = Len(tk.changes)
           /\ tk.files_updated # <<>>

\* A pull request was requested after two writes, one of them failed.
C12_Witness ==
  \E t \in DOMAIN tasks :
    /\ tasks[t].calls.pr = 1
    /\ tasks[t].calls.write = 2
    /\ Len(tasks[t].files_failed) = 1

(***************************************************************************)
(* C13: a worker that raises, parallel strategy.                           *)
(***************************************************************************)
\* C13: under the parallel strategy no exception leaves sync() once the calls
\* are submitted; the i-th outcome of the list is that of the i-th call to
\* complete, and is the Error built from the exception (for that repository,
\* with the exception's text as message) if the call raised, the call's own
\* result otherwise; when sync() returns there is one outcome per call.
C13_WorkerExceptionContained ==
  cfg.parallel =>
    /\ phase = "raised" => tasks = <<>>
    /\ \A i \in DOMAIN results :
         \E t \in DOMAIN tasks :
           /\ tasks[t].doneAt = i
           /\ tasks[t].pc = "collected"
           /\ results[i].repo_name = tasks[t].repo.name
           /\ IF tasks[t].result.status = "raised"
                THEN /\ results[i].status = "error"
                     /\ results[i].message.exc = tasks[t].exc
                ELSE results[i] = tasks[t].result
    /\ (phase = "returned" /\ tasks # <<>>) => Len(results) = Len(tasks)

\* The first call to complete raised, its sibling completed later with Success,
\* and both outcomes were returned in that order.
C13_Witness ==
  /\ cfg.parallel
  /\ phase = "returned"
  /\ Len(results) = 2
  /\ results[1].status = "error" /\ results[1].message.kind = "raised"
  /\ results[2].status = "success"

(***************************************************************************)
(* C14: the skip conditions.                                               *)
(***************************************************************************)
SkipKinds == {"archived", "empty_repository", "no_default_branch", "existing_pr"}

\* The call is past _check_skip_conditions, which returned None.
Proceeded(t) ==
  \/ tasks[t].pc \in {"diff", "base", "name", "create", "write", "all_failed",
                      "pr", "except"}
  \/ /\ Done(t)
     /\ tasks[t].result.status \in {"success", "no_changes", "error", "skipped"}
     /\ tasks[t].result.message.kind \notin SkipKinds
     /\ tasks[t].guard # "failed"

\* C14: the outcome of a call is decided by the first condition that matches, in
\* the order archived, default branch (unreadable: empty repository; none), open
\* sync pull request listed; a call the evaluator skipped has read no file and
\* made no mutating call; and the call proceeds to the diff only if the target
\* is not archived, has a default branch and the listing showed no sync pull
\* request.
C14_SkipOrder ==
  \A t \in DOMAIN tasks :
    LET tk == tasks[t]
        h == tk.repo
        kind == tk.result.message.kind
    IN /\ (Done(t) /\ tk.result.status # "raised" /\ tk.guard # "failed") =>
            IF h.archived THEN kind = "archived"
            ELSE IF h.default_branch = "raises" THEN kind = "empty_repository"
            ELSE IF h.default_branch = "" THEN kind = "no_default_branch"
            ELSE IF tk.guard = "seen" THEN kind = "existing_pr"
            ELSE kind \notin SkipKinds
       /\ kind \in SkipKinds =>
            /\ tk.result.status = "skipped"
            /\ tk.changes = <<>>
            /\ tk.calls = NoCalls
       /\ Proceeded(t) =>
            /\ ~h.archived
            /\ h.default_branch = "main"
            /\ tk.guard \in {"none", "missed"}
       /\ tk.pc \in {"queued", "skip"} => tk.changes = <<>>

\* An archived target without default branch and with an open sync pull request
\* was skipped as archived.
C14_Witness ==
  \E t \in DOMAIN tasks :
    /\ Done(t)
    /\ tasks[t].repo.archived
    /\ tasks[t].repo.default_branch = ""
    /\ tasks[t].hadSyncPR
    /\ tasks[t].result.message.kind = "archived"

(***************************************************************************)
(* C15: the diff.                                                          *)
(***************************************************************************)
\* The changes of `ch` that name file f.
ChangesOf(ch, f) == {i \in DOMAIN ch : ch[i].filename = f}

\* C15: for every target and every desired file, the diff holds a change without
\* version token iff the file is absent on the target, a change with the
\* target file's version token iff the file is present and its trimmed text
\* differs from the trimmed desired text, and no change otherwise; it holds at
\* most one change per desired file, changes of desired files only, each with
\* the desired text; and it is what a call keeps as its changes.
C15_DiffComputer ==
  /\ \A r \in TargetRepos :
       LET ch == RequiredChanges(source_workflows, files[r]) IN
         /\ \A i \in DOMAIN ch :
              \E k \in DOMAIN source_workflows :
                /\ source_workflows[k].filename = ch[i].filename
                /\ source_workflows[k].content = ch[i].content
         /\ \A k \in DOMAIN source_workflows :
              LET w == source_workflows[k]
                  cur == files[r][w.filename]
                  mine == ChangesOf(ch, w.filename)
              IN /\ Cardinality(mine) <= 1
                 /\ (\E i \in mine : ch[i].existing_sha = "") <=> ~cur.exists
                 /\ (\E i \in mine : ch[i].existing_sha # "")
                      <=> (cur.exists /\ Strip(cur.content) # Strip(w.content))
                 /\ \A i \in mine : cur.exists => ch[i].existing_sha = cur.sha
                 /\ (cur.exists /\ Strip(cur.content) = Strip(w.content))
                      => mine = {}
  /\ \A t \in DOMAIN tasks :
       tasks[t].changes # <<>> =>
         tasks[t].changes =
           RequiredChanges(source_workflows, files[tasks[t].repo.full_name])

\* The diff of a target whose build.yml differs from the desired one in
\* surrounding whitespace only and whose deploy.yml is absent: one change, the
\* creation of deploy.yml.
C15_Witness ==
  \E t \in DOMAIN tasks :
    LET r == tasks[t].repo.full_name IN
      /\ Len(source_workflows) = 2
      /\ files[r]["build.yml"].exists
      /\ files[r]["build.yml"].content # SourceContent("build.yml")
      /\ ~files[r]["deploy.yml"].exists
      /\ Len(tasks[t].changes) = 1
      /\ tasks[t].changes[1].filename = "deploy.yml"
      /\ tasks[t].changes[1].existing_sha = ""

(***************************************************************************)
(* C16: loading the desired state.                                         *)
(***************************************************************************)
\* run() is past _load_source_workflows.
PastLoad ==
  phase \in {"rate_search", "search", "resolve", "seq", "par", "returned"}

\* C16: a missing workflow path is a SourceRepoError; when run() is left with a
\* SourceRepoError from the load stage, or without any call having failed (the
\* loaded set was empty), no search, lookup or mutation has been made and the
\* exception is SourceRepoError; a filter that names no workflow of the source
\* never lets run() past the load; and past the load the desired set is
\* non-empty and holds exactly the workflows of the source (files of the
\* directory with a workflow suffix) that the filter, if any, names.
C16_LoadIsFatal ==
  /\ GetWorkflowFilesRaises("404") = "SourceRepoError"
  /\ (phase = "raised" /\ ((raised = "SourceRepoError" /\ ri = 0) \/ ~faulted)) =>
       /\ raised = "SourceRepoError"
       /\ source_workflows = <<>>
       /\ target_repos = <<>> /\ repos_to_sync = <<>> /\ ri = 0
       /\ tasks = <<>> /\ results = <<>>
       /\ branches = [r \in TargetRepos |-> {FeatureBranch}]
       /\ prCount = [r \in TargetRepos |-> 1]
  /\ (cfg.files_filter # {} /\ cfg.files_filter \cap FileNames = {}) => ~PastLoad
  /\ PastLoad =>
       /\ source_workflows # <<>>
       /\ \A i \in DOMAIN SourceListing :
            LET e == SourceListing[i] IN
              (\E k \in DOMAIN source_workflows :
                 /\ source_workflows[k].filename = e.name
                 /\ source_workflows[k].content = e.content)
              <=> /\ e.type = "file"
                  /\ HasWorkflowSuffix(e.name)
                  /\ cfg.files_filter # {} => e.name \in cfg.files_filter
       /\ \A k \in DOMAIN source_workflows :
            /\ source_workflows[k].filename \in FileNames
            /\ \A j \in DOMAIN source_workflows :
                 source_workflows[j].filename = source_workflows[k].filename
                   => j = k

\* A run whose filter names no workflow of the source was left with
\* SourceRepoError, every call having succeeded.
C16_Witness ==
  /\ phase = "raised"
  /\ raised = "SourceRepoError"
  /\ ~faulted
  /\ cfg.files_filter = {"lint.yml"}

(***************************************************************************)
(* C17: authentication failure.                                            *)
(***************************************************************************)
\* C17: an answer 401 to a call made for a repository is never recorded as that
\* repository's outcome (it leaves run() instead).
C17_AuthFailureIsFatal ==
  /\ \A t \in DOMAIN tasks :
       tasks[t].result.message.exc # GetFileContentRaises("401")
  /\ \A i \in DOMAIN results :
       results[i].message.exc # GetFileContentRaises("401")

\* What holds instead: a 401 answered to get_repository leaves run() as
\* AuthenticationError, from the load and from the resolution of the handles.
C17_LookupAuthFailureRaises ==
  /\ GetRepositoryRaises("401") = "AuthenticationError"
  /\ raised = "AuthenticationError" =>
       (phase = "raised" /\ tasks = <<>> /\ results = <<>>)

(***************************************************************************)
(* The command line (cli.py).  Strings are sequences of characters, so     *)
(* that the patterns of the validator are matched as the code matches them.*)
(***************************************************************************)
UpperCase == {"A", "T"}
LowerCase == {"a", "b", "g", "l", "m", "o", "r", "t", "x", "y"}
Digits == {"0"}
Alnum == UpperCase \cup LowerCase \cup Digits
NameChars == Alnum \cup {".", "_", "-"}

\* str.lower()
Lower(s) ==
  [i \in DOMAIN s |-> CASE s[i] = "A" -> "a" [] s[i] = "T" -> "t" [] OTHER -> s[i]]

\* `$` also matches before a newline that ends the string.
DollarEnd(s) ==
  IF Len(s) > 0 /\ s[Len(s)] = "\n" THEN SubSeq(s, 1, Len(s) - 1) ELSE s

EndsWith(s, suffix) ==
  /\ Len(s) >= Len(suffix)
  /\ SubSeq(s, Len(s) - Len(suffix) + 1, Len(s)) = suffix

Contains(s, part) ==
  \E i \in 1..Len(s) : i + Len(part) - 1 <= Len(s)
                       /\ SubSeq(s, i, i + Len(part) - 1) = part

\* ^[first][rest]{0,most}$
NamePattern(s, first, rest, most) ==
  LET v == DollarEnd(s) IN
    /\ Len(v) \in 1..(most + 1)
    /\ v[1] \in first
    /\ \A i \in 2..Len(v) : v[i] \in rest

OrganizationNamePattern(s) == NamePattern(s, Alnum, NameChars, 99)
RepositoryNamePattern(s) == NamePattern(s, Alnum, NameChars, 99)
TopicPattern(s) ==
  NamePattern(s, LowerCase \cup Digits, LowerCase \cup Digits \cup {"-"}, 49)

\* ^[a-zA-Z0-9][a-zA-Z0-9._-]*\.(yml|yaml)$
WorkflowFilePattern(s) ==
  LET v == DollarEnd(s) IN
    \E suffix \in {<<".", "y", "m", "l">>, <<".", "y", "a", "m", "l">>} :
      /\ EndsWith(v, suffix)
      /\ Len(v) > Len(suffix)
      /\ v[1] \in Alnum
      /\ \A i \in 2..(Len(v) - Len(suffix)) : v[i] \in NameChars

validate_token(token) == token # <<>> /\ Len(token) >= 20
validate_organization(value) == OrganizationNamePattern(value)
validate_repository(value) == RepositoryNamePattern(value)
validate_topic(value) == TopicPattern(Lower(value))
validate_workflow_file(filename) ==
  /\ ~Contains(filename, <<".", ".">>)
  /\ ~Contains(filename, <<"/">>)
  /\ ~Contains(filename, <<"\\">>)
  /\ WorkflowFilePattern(filename)
validate_workflow_files(fs) == \A i \in DOMAIN fs : validate_workflow_file(fs[i])

\* The fields of models.SyncConfig, and the keywords create_config passes to it.
SyncConfigFields ==
  {"token", "org", "topic", "source_repo", "dry_run", "files_filter",
   "max_workers", "timeout"}
CreateConfigKeywords ==
  {"token", "org", "topic", "source_repo", "dry_run", "files_filter",
   "max_workers", "timeout", "auto_merge"}

\* What the command line process is given: the environment's token, the
\* arguments, what service.run would do if it were called, and the moment the
\* user interrupts, if they do.
Tokens == {<<>>, <<"g", "h", "p">>, [i \in 1..20 |-> "x"]}
Orgs == {<<"o", "r", "g">>, <<"-", "o">>, <<"o", "\n">>}
SourceRepoNames == {<<"a">>, <<"a", "/", "b">>}
Topics == {<<"t">>, <<"T">>, <<"t", "_">>}
FileLists ==
  {<<>>,
   << <<"a", ".", "y", "m", "l">> >>,
   << <<"a", ".", "y", "m", "l">>, <<"b", "-", "0", ".", "y", "a", "m", "l">> >>,
   << <<"a", ".", ".", "y", "m", "l">> >>,
   << <<".", "y", "m", "l">> >>,
   << <<"a", ".", "y", "m", "l">>, <<"a", "/", "b", ".", "y", "m", "l">> >>}
Interrupts == {"none", "create_config", "run"}
WorkflowSyncErrors ==
  {"WorkflowSyncError", "SourceRepoError", "ValidationError", "RateLimitError",
   "AuthenticationError", "RepositoryAccessError"}
RunOutcomes ==
  {[raised |-> e, statuses |-> <<>>] :
     e \in {"SourceRepoError", "AuthenticationError", "RateLimitError",
            "unexpected"}}
  \cup {[raised |-> "", statuses |-> st] :
          st \in {<<>>} \cup UNION {[1..n -> {"success", "no_changes", "skipped",
                                              "error"}] : n \in 1..MaxTargets}}

CliInputs ==
  [pc : {"main"}, code : {0}, token : Tokens, org : Orgs,
   source_repo : SourceRepoNames, topic : Topics, files : FileLists,
   interrupt : Interrupts, run : RunOutcomes]

\* create_config: the exception it leaves with, "" if it returns.
CreateConfigRaises(c) ==
  IF c.interrupt = "create_config" THEN "KeyboardInterrupt"
  ELSE IF ~(/\ validate_token(c.token)
            /\ validate_organization(c.org)
            /\ validate_repository(c.source_repo)
            /\ validate_topic(c.topic)
            /\ validate_workflow_files(c.files)) THEN "ValidationError"
  ELSE IF ~(CreateConfigKeywords \subseteq SyncConfigFields) THEN "TypeError"
  ELSE ""

\* The body of main's try: the exception it leaves with, "" if it gets to the
\* summary.
TryRaises(c) ==
  IF CreateConfigRaises(c) # "" THEN CreateConfigRaises(c)
  ELSE IF c.interrupt = "run" THEN "KeyboardInterrupt"
  ELSE c.run.raised

has_errors(c) == \E i \in DOMAIN c.run.statuses : c.run.statuses[i] = "error"

ExitCode(c) ==
  IF c.token = <<>> THEN 1
  ELSE CASE TryRaises(c) = "" -> IF has_errors(c) THEN 1 ELSE 0
         [] TryRaises(c) = "ValidationError" -> 2
         [] TryRaises(c) \in WorkflowSyncErrors \ {"ValidationError"} -> 1
         [] TryRaises(c) = "KeyboardInterrupt" -> 130
         [] OTHER -> 1

Main ==
  /\ cli.pc = "main"
  /\ cli' = [cli EXCEPT !.pc = "exit", !.code = ExitCode(cli)]
  /\ UNCHANGED <<call, fixedVars, prev, runVars, taskVars, remoteVars, faulted>>

InitCli ==
  /\ InitRun({NoConfig}, {[r \in TargetRepos |-> Synced]},
             [len |-> 1, universe |-> TargetRepos, handles |-> {<<FALSE, "main">>},
              runs |-> 1, faults |-> "one"])
  /\ cli \in CliInputs
  /\ call = NoCall

NextCli == Main

SpecCli == InitCli /\ [][NextCli]_vars

\* The inputs the validator accepts.
ValidInputs(c) ==
  /\ validate_token(c.token)
  /\ validate_organization(c.org)
  /\ validate_repository(c.source_repo)
  /\ validate_topic(c.topic)
  /\ validate_workflow_files(c.files)

\* C18: main() returns 130 when the user interrupts it, 2 when an input is
\* invalid, 1 when the run fails or returns an Error outcome, and 0 when the
\* inputs are valid and the run completes with no Error outcome.
C18_ExitCodes ==
  cli.pc = "exit" =>
    cli.code =
      IF cli.interrupt = "create_config" THEN 130
      ELSE IF ~ValidInputs(cli) THEN 2
      ELSE IF cli.interrupt = "run" THEN 130
      ELSE IF cli.run.raised # "" \/ has_errors(cli) THEN 1
      ELSE 0

\* What holds instead: main() never returns 0; it returns 2 exactly when a token
\* is present and an input is invalid, and 1 for valid inputs, whatever the run
\* would do.
C18_ExitCodesAsBuilt ==
  cli.pc = "exit" =>
    /\ cli.code \in {1, 2, 130}
    /\ cli.code = 130 <=> (cli.token # <<>> /\ cli.interrupt = "create_config")
    /\ cli.code = 2 <=> (/\ cli.token # <<>>
                         /\ cli.interrupt # "create_config"
                         /\ ~ValidInputs(cli))
    /\ (ValidInputs(cli) /\ cli.interrupt # "create_config") => cli.code = 1

C18_ValidInputsExit ==
  /\ cli.pc = "exit"
  /\ ValidInputs(cli)
  /\ cli.interrupt = "none"
  /\ cli.run.raised = ""
  /\ ~has_errors(cli)
  /\ cli.code = 1

(***************************************************************************)
(* One call of the client (github_client.py): the answers of the remote    *)
(* service to its attempts, and the sleeps between them.                   *)
(*   "ok"         the request succeeds                                     *)
(*   "rate"       RateLimitExceededException (primary rate limit)          *)
(*   "secondary"  403 whose data names the secondary rate limit            *)
(*   "404", ...   GithubException with that status                         *)
(*   "net"        an exception that is no GithubException                  *)
(***************************************************************************)
MAX_RETRIES == 3
RETRY_DELAY_BASE == 2
MAX_RATE_LIMIT_WAIT == 300

Answers ==
  {"ok", "rate", "secondary", "500", "502", "503", "504", "404", "401", "403",
   "net"}
ServerErrors == {"500", "502", "503", "504"}

\* The methods the service calls, by whether they go through
\* _api_call_with_retry.
WrappedCalls ==
  {"get_repository", "search_repositories_by_topic", "get_file_content",
   "get_workflow_files", "create_branch", "create_or_update_file",
   "create_pull_request", "get_base_sha"}
DirectCalls ==
  {"delete_branch", "get_open_prs_with_prefix", "check_rate_limit",
   "branch_exists"}
GatewayCalls == WrappedCalls \cup DirectCalls

\* The calls that read the rate limit and sleep on it.
RateCalls ==
  {"check_rate_limit", "check_rate_limit(is_search)",
   "handle_post_operation_rate_limit"}

RECURSIVE Power(_, _)
Power(b, n) == IF n = 0 THEN 1 ELSE b * Power(b, n - 1)

Minimum(a, b) == IF a <= b THEN a ELSE b

\* The sleep after the failed attempt number `attempt` (from 0), by its answer.
WaitTime(answer, attempt) ==
  IF answer = "secondary"
    THEN Minimum(60 * Power(2, attempt), MAX_RATE_LIMIT_WAIT)
    ELSE Power(RETRY_DELAY_BASE, attempt + 1)

\* The answers _api_call_with_retry sleeps on and tries again.
Retried == {"rate", "secondary", "net"} \cup ServerErrors

\* `remaining` and `until` are what get_rate_limit reports when it is asked: the
\* budget left and the seconds from now to its reset.
NewCall(method) ==
  [pc |-> "call", method |-> method, attempt |-> 0, answers |-> <<>>,
   sleeps |-> <<>>, exc |-> "", remaining |-> 0, until |-> 0]

\* One iteration of the loop of _api_call_with_retry, with the raise that
\* follows the last one.
RetryAttempt ==
  /\ call.pc = "call"
  /\ call.method \in WrappedCalls
  /\ call.attempt < MAX_RETRIES
  /\ \E a \in Answers :
       call' =
         LET c == [call EXCEPT !.answers = Append(@, a)] IN
           IF a = "ok" THEN [c EXCEPT !.pc = "returned"]
           ELSE IF a \in Retried
             THEN LET d == [c EXCEPT !.sleeps = Append(@, WaitTime(a, call.attempt)),
                                     !.attempt = @ + 1]
                  IN IF d.attempt = MAX_RETRIES
                       THEN [d EXCEPT !.pc = "raised", !.exc = a]
                       ELSE d
           ELSE [c EXCEPT !.pc = "raised", !.exc = a]
  /\ UNCHANGED <<cli, fixedVars, prev, runVars, taskVars, remoteVars, faulted>>

\* What a method that calls the service directly makes of a failure:
\* delete_branch, get_open_prs_with_prefix and check_rate_limit log every
\* GithubException, branch_exists reads 404 as "no such branch".
DirectOutcome(method, a) ==
  IF a = "ok" THEN "returned"
  ELSE IF a = "net" THEN "raised"
  ELSE IF method = "branch_exists" THEN IF a = "404" THEN "returned" ELSE "raised"
  ELSE "logged"

DirectAttempt ==
  /\ call.pc = "call"
  /\ call.method \in DirectCalls \ RateCalls
  /\ \E a \in Answers :
       call' = [call EXCEPT !.answers = Append(@, a),
                            !.attempt = @ + 1,
                            !.pc = DirectOutcome(call.method, a),
                            !.exc = IF DirectOutcome(call.method, a) = "returned"
                                      THEN "" ELSE a]
  /\ UNCHANGED <<cli, fixedVars, prev, runVars, taskVars, remoteVars, faulted>>

RATE_LIMIT_THRESHOLD == 50
SEARCH_RATE_LIMIT_THRESHOLD == 5

\* Faulty variant of WaitForRateLimitReset: the wait is not capped.
WaitForRateLimitReset_Uncapped(until) == IF until + 5 > 0 THEN until + 5 ELSE 0

\* _wait_for_rate_limit_reset: the seconds slept, 0 when it does not sleep.
WaitForRateLimitReset(until) ==
  IF until + 5 > 0 THEN Minimum(until + 5, MAX_RATE_LIMIT_WAIT) ELSE 0

\* check_rate_limit: the seconds slept once get_rate_limit has answered.
CheckRateLimitDelay(method, remaining, until) ==
  LET threshold == IF method = "check_rate_limit(is_search)"
                     THEN SEARCH_RATE_LIMIT_THRESHOLD
                     ELSE RATE_LIMIT_THRESHOLD
  IN IF remaining < threshold THEN WaitForRateLimitReset(until) ELSE 0

\* handle_post_operation_rate_limit: the seconds slept once get_rate_limit has
\* answered.
PacingDelay(remaining, until) ==
  IF remaining < 10 THEN WaitForRateLimitReset(until)
  ELSE IF remaining < RATE_LIMIT_THRESHOLD THEN 2
  ELSE 1

Slept(seconds) == IF seconds > 0 THEN <<seconds>> ELSE <<>>

\* check_rate_limit, for the core and for the search budget, and
\* handle_post_operation_rate_limit: one request, then the sleep.
\* check_rate_limit logs a GithubException; the pacing call answers every
\* exception by sleeping 2 seconds.
RateLimitCall ==
  /\ call.pc = "call"
  /\ call.method \in RateCalls
  /\ \E a \in Answers :
       call' =
         LET c == [call EXCEPT !.answers = Append(@, a), !.attempt = @ + 1] IN
           IF call.method = "handle_post_operation_rate_limit"
             THEN [c EXCEPT !.pc = "returned",
                            !.sleeps = IF a = "ok"
                                         THEN Slept(PacingDelay(call.remaining, call.until))
                                         ELSE <<2>>]
           ELSE IF a = "ok"
             THEN [c EXCEPT !.pc = "returned",
                            !.sleeps = Slept(CheckRateLimitDelay(call.method,
                                               call.remaining, call.until))]
           ELSE [c EXCEPT !.pc = DirectOutcome(call.method, a), !.exc = a]
  /\ UNCHANGED <<cli, fixedVars, prev, runVars, taskVars, remoteVars, faulted>>

\* Budgets around the thresholds, and resets around now and around the cap.
Budgets == {0, 4, 5, 9, 10, 49, 50, 51}
ResetDelays == {0 - 6, 0 - 5, 0 - 4, 0, 294, 295, 296, 3600}

InitCall ==
  /\ InitRun({NoConfig}, {[r \in TargetRepos |-> Synced]},
             [len |-> 1, universe |-> TargetRepos, handles |-> {<<FALSE, "main">>},
              runs |-> 1, faults |-> "one"])
  /\ cli = NoCli
  /\ call \in {NewCall(m) : m \in GatewayCalls \ RateCalls}
              \cup {[NewCall(m) EXCEPT !.remaining = r, !.until = u] :
                      m \in RateCalls, r \in Budgets, u \in ResetDelays}

NextCall == RetryAttempt \/ DirectAttempt \/ RateLimitCall

SpecCall == InitCall /\ [][NextCall]_vars

Transient == {"rate", "secondary"} \cup ServerErrors
NonTransient == {"404", "401"}
CallOver == call.pc \in {"returned", "raised", "logged"}
LastAnswer == call.answers[Len(call.answers)]

\* C19: every call of the client answers a transient failure (5xx, primary or
\* secondary rate limit) by sleeping and trying again, gives up after
\* MAX_RETRIES attempts by raising the last failure, and lets a 404 or a 401
\* through at once, without a sleep.
C19_EveryCallRetries ==
  /\ call.pc = "call" =>
       /\ Len(call.answers) < MAX_RETRIES
       /\ Len(call.sleeps) = Len(call.answers)
  /\ CallOver =>
       /\ Len(call.answers) \in 1..MAX_RETRIES
       /\ LastAnswer \in Transient =>
            /\ Len(call.answers) = MAX_RETRIES
            /\ call.pc = "raised"
            /\ call.exc = LastAnswer
       /\ LastAnswer \in NonTransient =>
            Len(call.sleeps) = Len(call.answers) - 1

\* What holds instead: the calls made through _api_call_with_retry do so, with
\* sleeps that grow with the attempt (a network error is retried as well).
C19_WrappedCallsRetry ==
  call.method \in WrappedCalls =>
    /\ C19_EveryCallRetries
    /\ \A i \in DOMAIN call.answers :
         i < Len(call.answers) => call.answers[i] \in Retried
    /\ \A i \in DOMAIN call.sleeps :
         call.sleeps[i] = WaitTime(call.answers[i], i - 1)
    /\ \A i \in DOMAIN call.sleeps :
         i > 1 /\ (call.answers[i] = "secondary" <=> call.answers[i - 1] = "secondary")
           => call.sleeps[i] = 2 * call.sleeps[i - 1]

\* ... and delete_branch, get_open_prs_with_prefix, check_rate_limit and
\* branch_exists make one attempt, whatever the answer.
C19_DirectCallsOnce ==
  (call.method \in DirectCalls /\ CallOver) =>
    /\ Len(call.answers) = 1
    /\ LastAnswer # "ok" => call.sleeps = <<>>

C19_DirectTransientNotRetried ==
  /\ call.method = "delete_branch"
  /\ CallOver
  /\ call.answers = <<"503">>
  /\ call.pc = "logged"

(***************************************************************************)
(* C20: the cleanup of the sync branch is best-effort.                     *)
(***************************************************************************)
\* The failures a transaction hands to its handler once the branch is named.
TransactionCauses == {"create_branch", "create_pull"}

\* C20: whatever the delete answers, delete_branch returns to the transaction,
\* and the transaction returns Error with the message of what made it fail:
\* "all updates failed", or the exception caught, never that of the cleanup.
C20_CleanupBestEffort ==
  \A t \in DOMAIN tasks :
    LET tk == tasks[t] IN
      (Done(t) /\ tk.calls.delete >= 1) =>
        /\ tk.result.status = "error"
        /\ tk.result.branch_created = tk.branch_name
        /\ \/ tk.result.message = Message("all_failed", NoUrl, 0, "")
           \/ /\ tk.result.message.kind = "error"
              /\ tk.result.message.exc \in TransactionCauses

\* What holds instead: the above, unless the delete failed with an exception
\* that is no GithubException; that exception becomes the message of the Error.
C20_GithubFailureLogged ==
  \A t \in DOMAIN tasks :
    LET tk == tasks[t] IN
      (Done(t) /\ tk.calls.delete >= 1) =>
        /\ tk.result.status = "error"
        /\ DeleteBranchRaises("gh") = ""
        /\ \/ tk.result.message.exc = DeleteBranchRaises("net")
           \/ /\ tk.result.branch_created = tk.branch_name
              /\ \/ tk.result.message = Message("all_failed", NoUrl, 0, "")
                 \/ /\ tk.result.message.kind = "error"
                    /\ tk.result.message.exc \in TransactionCauses

\* A transaction whose pull request failed and whose cleanup failed on the
\* network: the Error carries the cleanup's exception and no branch.
C20_CleanupMessageSurfaces ==
  \E t \in DOMAIN tasks :
    /\ Done(t)
    /\ tasks[t].exc = "create_pull"
    /\ tasks[t].calls.delete = 1
    /\ tasks[t].result = OuterError(tasks[t].repo.name, DeleteBranchRaises("net"))

(***************************************************************************)
(* C21, C22: the search for targets.                                       *)
(***************************************************************************)
\* C21: no failure of the search leaves search_repositories_by_topic, hence
\* run(): the list comes back empty and run() returns an empty result.
C21_SearchNeverRaises ==
  /\ raised # SearchRaises("net")
  /\ (phase = "raised" /\ source_workflows # <<>> /\ target_repos = <<>>) =>
       raised \in {CheckRateLimitRaises("net")}

\* What holds instead: a GithubException of the search (a 5xx or a rate limit
\* after the retries, a failure while iterating) gives the empty list, whatever
\* had been collected, and a run that got an empty list returns it.
C21_GithubFailureYieldsEmpty ==
  /\ SearchRaises("gh") = ""
  /\ \A found \in SeqsUpTo(lim.universe, lim.len) : SearchReturns("gh", found) = <<>>
  /\ (phase = "returned" /\ target_repos = <<>>) => (results = <<>> /\ raised = "")

C21_SearchRaised ==
  /\ phase = "raised"
  /\ raised = SearchRaises("net")
  /\ target_repos = <<>>
  /\ source_workflows # <<>>

\* The remote state no run has touched.
Untouched ==
  /\ branches = [r \in TargetRepos |-> {FeatureBranch}]
  /\ prs = [r \in TargetRepos |-> << [head |-> FeatureBranch, url |-> PrUrl(r, 1)] >>]
  /\ prCount = [r \in TargetRepos |-> 1]

\* C22: a run whose search found nothing returns the empty list at once: it
\* raises nothing, fetches no handle, starts no strategy and no
\* sync_single_repo call, and leaves the targets as they were.
C22_NoTargetsEmptyResult ==
  /\ phase \in {"resolve", "seq", "par"} => target_repos # <<>>
  /\ (phase = "returned" /\ target_repos = <<>>) =>
       /\ results = <<>>
       /\ raised = ""
       /\ ri = 0
       /\ repos_to_sync = <<>>
       /\ tasks = <<>>
       /\ Untouched

\* A run loaded the source, found no target and returned.
C22_Witness ==
  /\ phase = "returned"
  /\ runNo = 1
  /\ source_workflows # <<>>
  /\ target_repos = <<>>
  /\ results = <<>>

(***************************************************************************)
(* C23: the sequential strategy.                                           *)
(***************************************************************************)
\* The 0-based positions 5, 10, 15, ...
CheckPositions == {5 * k : k \in 1..Len(tasks)}

\* C23: under the sequential strategy a call starts only when every call before
\* it is over, appended and paced; the i-th result is that of the i-th handle;
\* check_rate_limit is called at the head of an iteration exactly at the
\* positions 5, 10, ...; and handle_post_operation_rate_limit is called once
\* at the tail of every iteration.
C23_SequentialOrder ==
  (~cfg.parallel) =>
    /\ Len(results) = idx
    /\ \A i \in DOMAIN results :
         /\ results[i] = tasks[i].result
         /\ results[i].repo_name = repos_to_sync[i].name
    /\ \A t \in DOMAIN tasks :
         /\ tasks[t].repo = repos_to_sync[t]
         /\ tasks[t].pc = "collected" <=> t <= idx
         /\ tasks[t].pc # "queued" =>
              \A u \in 1..(t - 1) : tasks[u].pc = "collected"
         /\ tasks[t].rateChecked => (t - 1) \in CheckPositions
         /\ (tasks[t].pc # "queued" /\ (t - 1) \in CheckPositions)
              => tasks[t].rateChecked
         /\ tasks[t].paced = IF tasks[t].pc = "collected" THEN 1 ELSE 0

\* Six repositories went through the sequential strategy, the sixth after a
\* rate-limit check.
C23_Witness ==
  /\ ~cfg.parallel
  /\ phase = "returned"
  /\ Len(results) = RATE_CHECK_EVERY + 1
  /\ tasks[RATE_CHECK_EVERY + 1].rateChecked
  /\ ~tasks[RATE_CHECK_EVERY].rateChecked
  /\ \A t \in DOMAIN tasks : tasks[t].paced = 1

(***************************************************************************)
(* C24, C25: the waits.                                                    *)
(***************************************************************************)
RECURSIVE Sum(_)
Sum(seq) == IF seq = <<>> THEN 0 ELSE Head(seq) + Sum(Tail(seq))

\* C24: a check of the rate limit that finds the budget under its threshold
\* sleeps min(reset - now + 5, 300) seconds if that is positive, and not
\* otherwise; the i-th sleep of a retried call is 2^i seconds, or
\* min(60 * 2^(i-1), 300) on a secondary rate limit; no sleep is longer than 300
\* seconds and the sleeps of one call add up to at most 3 * 300.
C24_WaitsAreCapped ==
  /\ \A i \in DOMAIN call.sleeps : call.sleeps[i] \in 1..300
  /\ Sum(call.sleeps) <= 3 * 300
  /\ call.method \in WrappedCalls =>
       /\ Len(call.sleeps) <= 3
       /\ \A i \in DOMAIN call.sleeps :
            call.sleeps[i] = IF call.answers[i] = "secondary"
                               THEN (CASE i = 1 -> 60 [] i = 2 -> 120 [] i = 3 -> 240)
                               ELSE (CASE i = 1 -> 2 [] i = 2 -> 4 [] i = 3 -> 8)
  /\ (call.method \in {"check_rate_limit", "check_rate_limit(is_search)"}
      /\ call.pc = "returned" /\ LastAnswer = "ok") =>
       LET low == call.remaining <
                    (IF call.method = "check_rate_limit" THEN 50 ELSE 5)
           w == call.until + 5
       IN call.sleeps = IF low /\ w > 0
                          THEN << IF w < 300 THEN w ELSE 300 >>
                          ELSE <<>>

\* The core budget was low and its reset an hour away: the check slept 300 s.
C24_Witness ==
  /\ call.method = "check_rate_limit"
  /\ call.pc = "returned"
  /\ call.remaining < 50
  /\ call.until > 300
  /\ call.sleeps = <<300>>

\* A call answered by the secondary rate limit three times slept 60, 120 and
\* 240 seconds and raised.
C24_RetriedCallSlept ==
  /\ call.method \in WrappedCalls
  /\ call.pc = "raised"
  /\ call.sleeps = <<60, 120, 240>>

\* C25: the pacing delay does not grow with the budget: whatever the reset
\* time, the delay applied at a budget is at least the delay that any larger
\* budget would get.
C25_PacingMonotone ==
  (call.method = "handle_post_operation_rate_limit" /\ call.pc = "returned"
   /\ LastAnswer = "ok") =>
    \A r2 \in Budgets :
      call.remaining < r2 => Sum(call.sleeps) >= PacingDelay(r2, call.until)

\* What holds instead: the delay is 1 s from 50 on, 2 s from 10 to 49, and under
\* 10 the wait for the reset, which is 0 when the reset is 5 s or more in the
\* past and may be 1 s.
C25_PacingAsBuilt ==
  (call.method = "handle_post_operation_rate_limit" /\ call.pc = "returned") =>
    Sum(call.sleeps) =
      IF LastAnswer # "ok" THEN 2
      ELSE IF call.remaining >= 50 THEN 1
      ELSE IF call.remaining >= 10 THEN 2
      ELSE IF call.until + 5 <= 0 THEN 0
      ELSE IF call.until + 5 < 300 THEN call.until + 5
      ELSE 300

C25_LowBudgetNoDelay ==
  /\ call.method = "handle_post_operation_rate_limit"
  /\ call.pc = "returned"
  /\ LastAnswer = "ok"
  /\ call.remaining < 10
  /\ call.sleeps = <<>>

(***************************************************************************)
(* C26: the order of run().                                                *)
(***************************************************************************)
\* The steps of run() in their order; "raised" may follow any of them but the
\* parallel strategy, and a new run may follow the end of one.
RunOrder ==
  {<<"idle", "rate">>, <<"returned", "rate">>, <<"raised", "rate">>,
   <<"rate", "load">>, <<"load", "rate_search">>, <<"rate_search", "search">>,
   <<"search", "resolve">>, <<"search", "returned">>,
   <<"resolve", "seq">>, <<"resolve", "par">>,
   <<"seq", "returned">>, <<"par", "returned">>}
  \cup {<<p, "raised">> : p \in {"rate", "load", "rate_search", "search",
                                 "resolve", "seq"}}

\* C26: run() goes through the core rate-limit check, the load, the search
\* rate-limit check, the search, the loop that drops the source and fetches the
\* handle of every other candidate in the order of the search, and one
\* strategy, the one the flag names; the desired set is assigned once, by the
\* load, and calls of sync_single_repo exist only under that strategy.
C26_OrchestratorSequence ==
  /\ [][ /\ phase' # phase => <<phase, phase'>> \in RunOrder
         /\ source_workflows' # source_workflows =>
              \/ phase = "load" /\ source_workflows = <<>> /\ phase' = "rate_search"
              \/ phase' = "rate" /\ source_workflows' = <<>>
         /\ target_repos' # target_repos =>
              \/ phase = "search" /\ phase' = "resolve"
              \/ phase' = "rate" /\ target_repos' = <<>>
         /\ (repos_to_sync' # repos_to_sync /\ phase' # "rate") =>
              /\ phase = "resolve"
              /\ ri' = ri + 1
              /\ target_repos[ri'] # SourceRepo
              /\ Len(repos_to_sync') = Len(repos_to_sync) + 1
              /\ repos_to_sync'[Len(repos_to_sync')].full_name = target_repos[ri']
         /\ (phase = "resolve" /\ phase' \in {"seq", "par"}) =>
              /\ ri = Len(target_repos)
              /\ phase' = (IF cfg.parallel THEN "par" ELSE "seq")
              /\ Len(tasks') = Len(repos_to_sync)
       ]_vars
  /\ [](tasks # <<>> => phase \in {"seq", "par", "returned", "raised"})
  /\ [](phase = "seq" => ~cfg.parallel)
  /\ [](phase = "par" => cfg.parallel)

\* A run found the source and another repository and is in the sequential
\* strategy with the one handle left.
C26_Witness ==
  /\ phase = "seq"
  /\ \E i \in DOMAIN target_repos : target_repos[i] = SourceRepo
  /\ Len(target_repos) = 2
  /\ Len(repos_to_sync) = 1
  /\ Len(tasks) = 1
  /\ source_workflows # <<>>

(***************************************************************************)
(* C27, C28: failures before the branch exists.                            *)
(***************************************************************************)
\* C27: a transaction whose create_branch has not succeeded calls no
\* delete_branch, and one that failed in get_base_sha, in branch_exists or in
\* create_branch returns Error.
C27_NoCleanupBeforeBranch ==
  \A t \in DOMAIN tasks :
    LET tk == tasks[t] IN
      /\ ~tk.created => tk.calls.delete = 0
      /\ (Done(t) /\ tk.result.message.exc \in {"get_ref", "branch_exists", "create_branch"})
           => tk.result.status = "error"

\* What holds instead: no delete_branch follows a failure of get_base_sha or of
\* branch_exists, where no name is chosen yet; one follows a failure of
\* create_branch, for the name chosen.
C27_CleanupOnceNamed ==
  \A t \in DOMAIN tasks :
    LET tk == tasks[t] IN
      /\ tk.branch_name = NoBranch => (tk.calls.delete = 0 /\ tk.calls.create = 0)
      /\ (Done(t) /\ tk.result.message.exc \in {"get_ref", "branch_exists"}) =>
           /\ tk.result.status = "error"
           /\ tk.calls.delete = 0
           /\ tk.branch_name = NoBranch
      /\ (Done(t) /\ tk.calls.create = 1 /\ ~tk.created) =>
           /\ tk.result.status = "error"
           /\ tk.calls.delete = 1
           /\ tk.branch_name # NoBranch

C27_DeleteAfterFailedCreate ==
  \E t \in DOMAIN tasks :
    /\ Done(t)
    /\ ~tasks[t].created
    /\ tasks[t].exc = "create_branch"
    /\ tasks[t].calls.delete = 1
    /\ tasks[t].result.status = "error"

\* The transaction is between its create_branch and its last use of the branch.
UsingBranch(t) == tasks[t].created /\ tasks[t].pc \in {"write", "pr"}

\* C28: the branch a transaction created is there for as long as the
\* transaction uses it: no other transaction on the repository deletes it.
C28_OwnBranchOnly ==
  \A t \in DOMAIN tasks :
    UsingBranch(t) => tasks[t].branch_name \in branches[tasks[t].repo.full_name]

\* Two transactions on one repository chose the same name; the create_branch of
\* the second failed and its handler deleted the branch the first was writing
\* to.
C28_ForeignBranchDeleted ==
  \E t, u \in DOMAIN tasks :
    /\ t # u
    /\ tasks[t].repo.full_name = tasks[u].repo.full_name
    /\ tasks[t].branch_name = tasks[u].branch_name
    /\ UsingBranch(t)
    /\ ~tasks[u].created
    /\ tasks[u].calls.delete = 1
    /\ tasks[t].branch_name \notin branches[tasks[t].repo.full_name]

(***************************************************************************)
(* C29: the writes of a transaction.                                       *)
(***************************************************************************)
\* C29: the k-th write of a transaction is that of the k-th change; after k
\* writes files_updated and files_failed hold, in the order of the change list
\* and without a name in both, the names of the first k changes; and a
\* transaction that has left the loop has attempted every change, whatever
\* failed.
C29_WritesIndependent ==
  \A t \in DOMAIN tasks :
    LET tk == tasks[t]
        attempted == SubSeq(Names(tk.changes), 1, tk.calls.write)
        U == {tk.files_updated[i] : i \in DOMAIN tk.files_updated}
        F == {tk.files_failed[i] : i \in DOMAIN tk.files_failed}
        InU(n) == n \in U
        InF(n) == n \in F
    IN /\ tk.calls.write <= Len(tk.changes)
       /\ tk.pc = "write" => tk.wi = tk.calls.write + 1
       /\ U \cap F = {}
       /\ U \cup F = {attempted[i] : i \in DOMAIN attempted}
       /\ tk.files_updated = SelectSeq(attempted, InU)
       /\ tk.files_failed = SelectSeq(attempted, InF)
       /\ (tk.created /\ tk.pc # "write") => tk.calls.write = Len(tk.changes)

\* The first write of a transaction failed and its second succeeded.
C29_Witness ==
  \E t \in DOMAIN tasks :
    /\ Len(tasks[t].changes) = 2
    /\ tasks[t].calls.write = 2
    /\ tasks[t].files_failed = <<tasks[t].changes[1].filename>>
    /\ tasks[t].files_updated = <<tasks[t].changes[2].filename>>

(***************************************************************************)
(* C30: what a transaction mutates.                                        *)
(***************************************************************************)
\* C30: every write request of a transaction names the sync branch that the
\* transaction created; it is an update with the version token and the message
\* "sync" iff the change carries a token, a creation with the message "add"
\* otherwise; and the pull request is asked with that branch as head and the
\* target's default branch as base.
C30_MutationsOnSyncBranch ==
  \A t \in DOMAIN tasks :
    LET tk == tasks[t] IN
      /\ Len(tk.requests) = tk.calls.write
      /\ \A i \in DOMAIN tk.requests :
           LET q == tk.requests[i]
               ch == tk.changes[i]
           IN /\ tk.created
              /\ q.branch = tk.branch_name
              /\ q.branch.prefix = BRANCH_PREFIX
              /\ q.branch # FeatureBranch
              /\ q.filename = ch.filename
              /\ q.content = ch.content
              /\ IF ch.existing_sha # ""
                   THEN /\ q.operation = "update_file"
                        /\ q.message = "sync"
                        /\ q.sha = ch.existing_sha
                   ELSE /\ q.operation = "create_file"
                        /\ q.message = "add"
      /\ tk.calls.pr = 0 <=> tk.pull = NoPull
      /\ tk.calls.pr > 0 =>
           /\ tk.created
           /\ tk.pull.head = tk.branch_name
           /\ tk.pull.base = tk.repo.default_branch

\* A transaction updated one file and added another on its branch, and asked
\* for the pull request.
C30_Witness ==
  \E t \in DOMAIN tasks :
    /\ tasks[t].calls.pr = 1
    /\ Len(tasks[t].requests) = 2
    /\ tasks[t].requests[1].operation = "update_file"
    /\ tasks[t].requests[2].operation = "create_file"
    /\ tasks[t].pull.base = "main"

(***************************************************************************)
(* C31: no orphan branch.                                                  *)
(***************************************************************************)
HeadsOf(r) == {prs[r][i].head : i \in DOMAIN prs[r]}

\* C31: once a transaction that created its branch is over, and unless its
\* delete_branch failed, the branch is on the target iff the outcome is
\* Success, and then an open pull request has it as head.
C31_NoOrphanBranch ==
  \A t \in DOMAIN tasks :
    LET tk == tasks[t]
        r == tk.repo.full_name
    IN (Done(t) /\ tk.created /\ tk.cleanup \in {"none", "ok"}) =>
         /\ tk.branch_name \in branches[r] <=> tk.result.status = "success"
         /\ tk.result.status = "success" => tk.branch_name \in HeadsOf(r)
         /\ tk.result.status = "error" => tk.cleanup = "ok"

\* A transaction returned Success and the branch it created is gone, deleted by
\* another transaction on the repository whose create_branch had failed.
C31_SuccessWithoutBranch ==
  \E t, u \in DOMAIN tasks :
    /\ t # u
    /\ Done(t)
    /\ tasks[t].created
    /\ tasks[t].result.status = "success"
    /\ tasks[t].branch_name \notin branches[tasks[t].repo.full_name]
    /\ ~tasks[u].created
    /\ tasks[u].branch_name = tasks[t].branch_name
    /\ tasks[u].cleanup = "ok"

\* An Error whose cleanup succeeded left no branch.
C31_ErrorCleanedUp ==
  \E t \in DOMAIN tasks :
    /\ Done(t)
    /\ tasks[t].created
    /\ tasks[t].result.status = "error"
    /\ tasks[t].cleanup = "ok"
    /\ tasks[t].branch_name \notin branches[tasks[t].repo.full_name]

(***************************************************************************)
(* C32: one pull request per target and run.                               *)
(***************************************************************************)
\* The calls of the run that opened a pull request on r.
Openers(r) ==
  {t \in DOMAIN tasks : /\ tasks[t].repo.full_name = r
                        /\ tasks[t].result.status = "success"}

\* C32: a run opens at most one pull request on a target, whichever strategy
\* runs and however often the search lists the target.
C32_OnePullRequestPerTarget ==
  \A r \in TargetRepos :
    /\ Cardinality(Openers(r)) <= 1
    /\ runNo <= 1 => prCount[r] <= 2

\* What holds instead: the sequential strategy opens at most one as long as the
\* listing of the open pull requests does not fail.
C32_SequentialOnePullRequest ==
  (~cfg.parallel /\ \A t \in DOMAIN tasks : tasks[t].guard # "missed") =>
    \A r \in TargetRepos : Cardinality(Openers(r)) <= 1

\* Two workers of one run opened two pull requests on the same target, no call
\* having failed.
C32_TwoPullRequests ==
  \E t, u \in DOMAIN tasks :
    /\ t # u
    /\ cfg.parallel
    /\ ~faulted
    /\ tasks[t].repo.full_name = tasks[u].repo.full_name
    /\ tasks[t].result.status = "success"
    /\ tasks[u].result.status = "success"
    /\ tasks[t].result.pr_url # tasks[u].result.pr_url

(***************************************************************************)
(* C33: the pool of the parallel strategy.                                 *)
(***************************************************************************)
\* The scheduling of the run: the interpreter and the pool's threads keep
\* taking steps while one is possible.
SpecFair == Init /\ [][Next]_vars /\ WF_vars(Next)

Busy == {t \in DOMAIN tasks : Running(t)}

\* sync() of the parallel strategy has returned.
ParReturned == cfg.parallel /\ phase = "returned" /\ tasks # <<>>

PoolBounded ==
  /\ phase = "par" => Cardinality(Busy) <= cfg.max_workers
  /\ ParReturned =>
       /\ \A t \in DOMAIN tasks : tasks[t].pc = "collected" /\ tasks[t].doneAt > 0
       /\ Len(results) = Len(tasks)
       /\ doneQueue = <<>>

\* C33: the parallel strategy never has more than max_workers repositories in
\* work at once, and every submitted repository is processed and collected
\* before sync returns, which it eventually does.
C33_BoundedPool ==
  /\ []PoolBounded
  /\ \A n \in 1..(MaxTargets + 1) :
       (phase = "par" /\ Len(tasks) = n) ~> (ParReturned /\ Len(results) = n)

\* The pool is full while a submitted call waits.
C33_Witness ==
  /\ phase = "par"
  /\ Cardinality(Busy) = cfg.max_workers
  /\ \E t \in DOMAIN tasks : tasks[t].pc = "queued"

(***************************************************************************)
(* C34: what the concurrent calls share.                                   *)
(***************************************************************************)
\* The locals the claim names, of one call.
Locals(tk) ==
  [branch_name |-> tk.branch_name, files_updated |-> tk.files_updated,
   files_failed |-> tk.files_failed, result |-> tk.result]

\* C34: while the targets are processed no step writes the desired workflow
\* set or the configuration, and a step that changes the branch name, the file
\* lists or the outcome of one call leaves those of every other call as they
\* were.
C34_NoSharedLocals ==
  [][(phase \in {"seq", "par"} /\ DOMAIN tasks' = DOMAIN tasks) =>
       /\ source_workflows' = source_workflows
       /\ cfg' = cfg
       /\ \A t, u \in DOMAIN tasks :
            (t # u /\ Locals(tasks'[t]) # Locals(tasks[t])) =>
              Locals(tasks'[u]) = Locals(tasks[u])]_vars

\* Two calls in progress at once, each past its first write, with their own
\* branch names.
C34_Witness ==
  \E t, u \in DOMAIN tasks :
    /\ t # u
    /\ Running(t) /\ Running(u)
    /\ tasks[t].branch_name # NoBranch
    /\ tasks[u].branch_name # NoBranch
    /\ tasks[t].branch_name # tasks[u].branch_name
    /\ tasks[t].files_updated # <<>>
    /\ tasks[u].files_updated = <<>>

(***************************************************************************)
(* C35: the name of the sync branch.                                       *)
(***************************************************************************)
\* C35: the branch is named <prefix>-<millisecond>; branch_exists is asked
\* once, a suffix in 1000..9999 is appended exactly when it reported a
\* collision, without another look; create_branch gets that name and the sha
\* read from the head of the default branch.
C35_BranchNaming ==
  \A t \in DOMAIN tasks :
    LET tk == tasks[t]
        b == tk.branch_name
    IN /\ tk.probes <= 1
       /\ b # NoBranch =>
            /\ tk.probes = 1
            /\ b.prefix = BRANCH_PREFIX
            /\ 0 < b.ts /\ b.ts <= now
            /\ IF tk.collided THEN b.rnd \in SUFFIX_MIN..SUFFIX_MAX ELSE b.rnd = 0
       /\ tk.calls.create > 0 =>
            /\ b # NoBranch
            /\ tk.ref.name = b
            /\ tk.ref.sha = HeadSha(tk.repo.default_branch)
            /\ tk.ref.sha # ""

\* A collision was reported, the suffixed name was sent to create_branch and
\* the branch was created.
C35_Witness ==
  \E t \in DOMAIN tasks :
    /\ tasks[t].collided
    /\ tasks[t].created
    /\ tasks[t].branch_name.rnd = SUFFIX_MAX
    /\ tasks[t].ref.name = tasks[t].branch_name

\* No collision: the plain name was created.
C35_PlainName ==
  \E t \in DOMAIN tasks :
    /\ tasks[t].probes = 1
    /\ ~tasks[t].collided
    /\ tasks[t].created
    /\ tasks[t].branch_name.rnd = 0

(***************************************************************************)
(* C36: branch_created of an outcome.                                      *)
(***************************************************************************)
\* C36: an outcome names a branch only if the create_branch of its own
\* transaction succeeded, and then it is the branch created; Skipped, NoChanges
\* and dry-run outcomes, and the failures before create_branch succeeded, name
\* none.
C36_BranchCreatedIsOwn ==
  \A t \in DOMAIN tasks :
    LET res == tasks[t].result IN
      Done(t) =>
        /\ res.branch_created # NoBranch =>
             (tasks[t].created /\ res.branch_created = tasks[t].ref.name)
        /\ res.status \in {"skipped", "no_changes"} => res.branch_created = NoBranch
        /\ ~tasks[t].created => res.branch_created = NoBranch

\* What holds instead: the outcome names the branch once create_branch was
\* called, whether or not it succeeded (unless delete_branch raised out of the
\* transaction).
C36_BranchCreatedIsNamed ==
  \A t \in DOMAIN tasks :
    LET res == tasks[t].result IN
      Done(t) =>
        /\ res.branch_created # NoBranch => tasks[t].calls.create = 1
        /\ (tasks[t].calls.create = 1 /\ tasks[t].cleanup # "net") =>
             res.branch_created # NoBranch
        /\ res.branch_created # NoBranch => res.branch_created = tasks[t].branch_name
        /\ res.status \in {"skipped", "no_changes"} => res.branch_created = NoBranch

\* An Error whose create_branch failed names the branch it did not create.
C36_NamedButNotCreated ==
  \E t \in DOMAIN tasks :
    /\ Done(t)
    /\ ~tasks[t].created
    /\ tasks[t].calls.create = 1
    /\ tasks[t].result.status = "error"
    /\ tasks[t].result.branch_created = tasks[t].branch_name
    /\ tasks[t].branch_name # NoBranch

(***************************************************************************)
(* C37: a failing listing of the open pull requests.                       *)
(***************************************************************************)
\* _check_skip_conditions returned None to the call: it is at the diff or
\* beyond, or over with an outcome of the diff or the transaction.
PastSkipCheck(t) ==
  \/ tasks[t].pc \in {"diff", "base", "name", "create", "write", "all_failed",
                      "pr", "except"}
  \/ /\ Done(t)
     /\ tasks[t].result.message.kind \notin SkipKinds
     /\ tasks[t].result.message.exc # OpenPrsRaises("net")

\* C37 (what the code guarantees): a listing that fails with a GithubException
\* is taken as empty, an open sync pull request or not: the skip check returns
\* None and the call goes on to the diff.  A listing that fails with another
\* exception ends the call with Error before the diff, nothing created.
C37_GithubFailureProceeds ==
  \A t \in DOMAIN tasks :
    LET tk == tasks[t] IN
      /\ tk.listed = "gh" => PastSkipCheck(t)
      /\ tk.listed = "net" =>
           /\ Done(t)
           /\ tk.result.status = "error"
           /\ tk.result.message.exc = OpenPrsRaises("net")
           /\ tk.calls = NoCalls
           /\ tk.changes = <<>>

\* C37 as stated: whenever the listing fails the call goes on to the diff.
C37_AsStated ==
  \A t \in DOMAIN tasks :
    tasks[t].listed \in {"gh", "net"} => PastSkipCheck(t)

\* The listing failed while a sync pull request was open, and the call opened
\* another one.
C37_Witness ==
  \E t \in DOMAIN tasks :
    /\ tasks[t].listed = "gh"
    /\ tasks[t].hadSyncPR
    /\ tasks[t].result.status = "success"

(***************************************************************************)
(* C38: sync_single_repo always returns one outcome.                       *)
(***************************************************************************)
Statuses == {"success", "skipped", "no_changes", "error"}

\* How far a call is: every step of sync_single_repo moves it forward.
Rank(tk) ==
  CASE tk.pc = "queued" -> 0
    [] tk.pc = "skip" -> 1
    [] tk.pc = "diff" -> 2
    [] tk.pc = "base" -> 3
    [] tk.pc = "name" -> 4
    [] tk.pc = "create" -> 5
    [] tk.pc = "write" -> 5 + tk.wi
    [] tk.pc \in {"all_failed", "pr"} -> 8 + Len(tk.changes)
    [] tk.pc = "except" -> 9 + Len(tk.changes)
    [] tk.pc = "done" -> 10 + Len(tk.changes)
    [] tk.pc = "collected" -> 11 + Len(tk.changes)

\* A call in progress can take a step; a call that is over has a result for
\* its repository with one of the four statuses.
OutcomeOrStep ==
  \A t \in DOMAIN tasks :
    /\ Running(t) => ENABLED TaskStep(t)
    /\ Done(t) =>
         /\ tasks[t].result.status \in Statuses
         /\ tasks[t].result.repo_name = tasks[t].repo.name
    /\ ~Done(t) => tasks[t].result = NoResult

\* C38: whatever the gateway answers, a call of sync_single_repo can always go
\* on, every step brings it nearer to its end, and it ends by returning one
\* result with status Success, Skipped, NoChanges or Error, which stays; no
\* exception leaves it.
C38_AlwaysOneOutcome ==
  /\ []OutcomeOrStep
  /\ [][\A t \in DOMAIN tasks \cap DOMAIN tasks' :
          /\ tasks'[t] # tasks[t] => Rank(tasks'[t]) > Rank(tasks[t])
          /\ Done(t) => tasks'[t].result = tasks[t].result]_vars

\* A call whose cleanup raised twice still returned an Error outcome.
C38_Witness ==
  \E t \in DOMAIN tasks :
    /\ Done(t)
    /\ tasks[t].calls.delete = 2
    /\ tasks[t].result.status = "error"
    /\ tasks[t].result.message.exc = DeleteBranchRaises("net")

(***************************************************************************)
(* C39: pr_url of an outcome.                                              *)
(***************************************************************************)
\* C39: an outcome carries a pr_url exactly when its status is Success, and a
\* transaction calls create_pull_request at most once (once for a Success).
C39_UrlIffSuccess ==
  /\ \A t \in DOMAIN tasks :
       LET tk == tasks[t] IN
         /\ tk.calls.pr <= 1
         /\ tk.result.pr_url # NoUrl <=> tk.result.status = "success"
         /\ tk.result.status = "success" =>
              /\ tk.calls.pr = 1
              /\ tk.result.pr_url[1] = tk.repo.full_name
  /\ \A i \in DOMAIN results :
       results[i].pr_url # NoUrl <=> results[i].status = "success"

\* A run returned a Success with its URL after a Skipped that found a pull
\* request open, or an Error whose create_pull_request failed.
C39_Witness ==
  /\ \E t \in DOMAIN tasks :
       /\ Done(t)
       /\ tasks[t].result.status = "success"
       /\ tasks[t].result.pr_url # NoUrl
  /\ \E t \in DOMAIN prev :
       \/ prev[t].status = "skipped" /\ prev[t].message.kind = "existing_pr"
       \/ prev[t].status = "error" /\ prev[t].message.exc = "create_pull"

(***************************************************************************)
(* GitHubClient.search_repositories_by_topic: the loop over the search     *)
(* results.  A result carries the archived flag, the default branch and    *)
(* what reading its permissions gives: "none" (no permissions object),     *)
(* "push", "no_push", or "raises".                                         *)
(***************************************************************************)
MaxResults == 2

Permissions == {"none", "push", "no_push", "raises"}

SearchItems ==
  [full_name : TargetRepos, archived : BOOLEAN, default_branch : {"", "dev"},
   permissions : Permissions]

\* Faulty variant of Dropped: the archived flag is not looked at.
Dropped_ArchivedKept(repo) == repo.permissions = "no_push"

\* "if repo.archived: continue" and "if repo.permissions and not
\* repo.permissions.push: continue", an exception of the latter being swallowed.
Dropped(repo) ==
  \/ repo.archived
  \/ repo.permissions = "no_push"

\* "repo.default_branch or 'main'"
DefaultBranchOr(b) == IF b = "" THEN "main" ELSE b

RepositoryInfo(repo) ==
  [name |-> ShortName(repo.full_name), full_name |-> repo.full_name,
   default_branch |-> DefaultBranchOr(repo.default_branch),
   archived |-> repo.archived, has_push_permission |-> TRUE]

NewSearch(items) ==
  [pc |-> "search", search_results |-> items, i |-> 1, repos |-> <<>>,
   exc |-> ""]

\* One iteration of "for repo in search_results".
SearchVisit ==
  /\ call.pc = "search"
  /\ call.i <= Len(call.search_results)
  /\ LET repo == call.search_results[call.i] IN
       call' = [call EXCEPT !.i = @ + 1,
                            !.repos = IF Dropped(repo) THEN @
                                      ELSE Append(@, RepositoryInfo(repo))]
  /\ UNCHANGED <<cli, fixedVars, prev, runVars, taskVars, remoteVars, faulted>>

\* The fetch of the next result fails: a GithubException gives the empty list,
\* any other exception leaves the method.
SearchPageFails ==
  /\ call.pc = "search"
  /\ call.i <= Len(call.search_results)
  /\ \E o \in {"gh", "net"} :
       call' = IF o = "gh"
                 THEN [call EXCEPT !.pc = "returned", !.repos = <<>>, !.exc = o]
                 ELSE [call EXCEPT !.pc = "raised", !.exc = o]
  /\ UNCHANGED <<cli, fixedVars, prev, runVars, taskVars, remoteVars, faulted>>

\* "return repos"
SearchReturn ==
  /\ call.pc = "search"
  /\ call.i > Len(call.search_results)
  /\ call' = [call EXCEPT !.pc = "returned"]
  /\ UNCHANGED <<cli, fixedVars, prev, runVars, taskVars, remoteVars, faulted>>

InitSearch ==
  /\ InitRun({NoConfig}, {[r \in TargetRepos |-> Synced]},
             [len |-> 1, universe |-> TargetRepos, handles |-> {<<FALSE, "main">>},
              runs |-> 1, faults |-> "one"])
  /\ cli = NoCli
  /\ call \in {NewSearch(items) : items \in SeqsUpTo(SearchItems, MaxResults)}

NextSearch == SearchVisit \/ SearchPageFails \/ SearchReturn

SpecSearch == InitSearch /\ [][NextSearch]_vars

(***************************************************************************)
(* C40: what the topic search returns.                                     *)
(***************************************************************************)
\* The results the claim keeps: not archived, and push permission not known to
\* be absent.
Pushable(repo) == ~repo.archived /\ repo.permissions \in {"none", "push", "raises"}

\* C40: the search returns, in the order found, exactly the results that are
\* not archived and whose permissions do not report a missing push right: a
\* result whose permissions cannot be read is kept, one without push right is
\* dropped, and every candidate returned has archived = false.
C40_SearchFilter ==
  (call.pc = "returned" /\ call.exc = "") =>
    LET kept == SelectSeq(call.search_results, Pushable) IN
      /\ Len(call.repos) = Len(kept)
      /\ \A i \in DOMAIN call.repos :
           /\ call.repos[i].archived = FALSE
           /\ call.repos[i].full_name = kept[i].full_name
           /\ call.repos[i].has_push_permission
           /\ call.repos[i].default_branch # ""

\* A search over a result without push right and one with unreadable
\* permissions returned the second only.
C40_Witness ==
  /\ call.pc = "returned"
  /\ call.exc = ""
  /\ Len(call.search_results) = 2
  /\ call.search_results[1].permissions = "no_push"
  /\ ~call.search_results[1].archived
  /\ call.search_results[2].permissions = "raises"
  /\ Len(call.repos) = 1
  /\ call.repos[1].full_name = call.search_results[2].full_name
====
